---- MODULE Spec2Model ----
\* A model of the jiraTable dashboard: the duration-string parser of the issue
\* detail panel and the route handlers of the Express server that forwards to
\* the upstream issue tracker, and the state the view keeps in the browser.
EXTENDS Integers, Sequences, FiniteSets, TLC

VARIABLES
    input,      \* the text handed to parseTimeToSeconds (a sequence of characters)
    tok,        \* the token counts the text was written from (-1: token absent)
    structured, \* TRUE when the text was written from tok
    ppc,        \* "ready" before the call of parseTimeToSeconds, "parsed" after
    result,     \* what parseTimeToSeconds returned
    tz,         \* the server's timezone: local time is UTC + tz hours
    listen,     \* the PORT of the server's environment and the port it listens on
    h,          \* per request: the handler's position and its local variables
    resp,       \* per request: the responses sent, in order
    calls,      \* per request: the upstream calls made, in order
    replies,    \* per request: the outcomes of its upstream calls, in order
    reads,      \* per request: the readings of the clock it took, in order
    mixed,      \* per request: TRUE once its handler has resumed while the
                \* handler of another request was waiting on upstream
    localStorage, \* the browser's 'starredProjects' entry: a JSON text or Absent
    app,        \* the state of the App component
    toggled,    \* the toggleStar operations so far: the key and the list before
    pending,    \* the fetch the view is waiting for, with what follows it
    settled,    \* the fetches that came back: operation, outcome, error state after
    panelData,  \* the data state of WeeklyTimesheet and of WorklogSummary
    screen,     \* what the view last rendered
    themeStorage, \* the browser's 'theme' entry
    searches,   \* the fetches and timers of App that have not come back yet
    noted,      \* what the properties need of the past of App
    board,      \* KanbanBoard: the issues it was given and its columns
    panel       \* IssueDetailPanel: its state and what its handlers did

parseVars == <<input, tok, structured, ppc, result>>
serverVars == <<tz, listen, h, resp, calls, replies, reads, mixed>>
appVars == <<themeStorage, searches, noted>>
componentVars == <<board, panel>>
viewVars == <<localStorage, app, toggled, pending, settled, panelData, screen, appVars,
              componentVars>>
vars == <<input, tok, structured, ppc, result, tz, listen, h, resp, calls, replies, reads, mixed,
          localStorage, app, toggled, pending, settled, panelData, screen,
          themeStorage, searches, noted, board, panel>>

-----------------------------------------------------------------------------
\* Bounds of the model.

\* longest unstructured text
MaxLen == 4
\* most whitespace characters between two tokens
MaxSep == 2
\* most whitespace characters before and after the text
MaxPad == 1
\* most issues in a reply of the upstream issue search
MaxIssues == 2
\* most worklogs in the upstream's replies to one request, all issues together
MaxWorklogs == 2
\* most entries in the upstream's issue-type list of a project
MaxTypes == 2
\* most project keys in the starred list the browser has stored
MaxSaved == 2
\* most toggleStar operations
MaxToggles == 3
\* most fetches the user starts
MaxFetches == 2
\* most days in the timesheet the server answers with
MaxDays == 2
MaxSearches == 3   \* issue searches and project changes of one run of App
MaxDetails == 2    \* issue detail fetches of one run of App
MaxCards == 3      \* issues given to the board
MaxLogs == 2       \* clicks on the Log button
\* most requests the server handles at the same time
MaxRequests == 2

-----------------------------------------------------------------------------
\* Characters and decimal numbers.

DigitChars == {"0", "1", "3"}
UnitChars == {"w", "d", "h", "m"}
Alphabet == DigitChars \cup UnitChars \cup {" ", "x"}

\* the counts a token is written with
Counts == {0, 1, 2, 30}

IsDigit(c) == c \in {"0", "1", "2", "3", "4", "5", "6", "7", "8", "9"}
IsSpace(c) == c = " "

DigitOf(n) ==
    CASE n = 0 -> "0" [] n = 1 -> "1" [] n = 2 -> "2" [] n = 3 -> "3"
      [] n = 4 -> "4" [] n = 5 -> "5" [] n = 6 -> "6" [] n = 7 -> "7"
      [] n = 8 -> "8" [] n = 9 -> "9"

\* the decimal numeral of n, as the user types it
RECURSIVE Numeral(_)
Numeral(n) == IF n < 10 THEN <<DigitOf(n)>> ELSE Numeral(n \div 10) \o <<DigitOf(n % 10)>>

Spaces(k) == [i \in 1..k |-> " "]

\* the text "<w>w <d>d <h>h <m>m" with the absent tokens left out
Token(n, unit) == IF n < 0 THEN <<>> ELSE Numeral(n) \o <<unit>>
RECURSIVE JoinTokens(_, _)
JoinTokens(ts, sep) ==
    IF ts = <<>> THEN <<>>
    ELSE IF Head(ts) = <<>> THEN JoinTokens(Tail(ts), sep)
    ELSE LET rest == JoinTokens(Tail(ts), sep)
         IN  IF rest = <<>> THEN Head(ts) ELSE Head(ts) \o Spaces(sep) \o rest
Render(t, sep, lead, trail) ==
    Spaces(lead)
      \o JoinTokens(<<Token(t.w, "w"), Token(t.d, "d"), Token(t.h, "h"), Token(t.m, "m")>>, sep)
      \o Spaces(trail)

RECURSIVE StringsOfLen(_)
StringsOfLen(n) ==
    IF n = 0 THEN {<<>>}
    ELSE {Append(s, c) : s \in StringsOfLen(n - 1), c \in Alphabet}
Strings == UNION {StringsOfLen(n) : n \in 0..MaxLen}

-----------------------------------------------------------------------------
\* parseTimeToSeconds.

\* String.prototype.trim
RECURSIVE TrimLeft(_)
TrimLeft(s) == IF s # <<>> /\ IsSpace(Head(s)) THEN TrimLeft(Tail(s)) ELSE s
RECURSIVE TrimRight(_)
TrimRight(s) ==
    IF s # <<>> /\ IsSpace(s[Len(s)]) THEN TrimRight(SubSeq(s, 1, Len(s) - 1)) ELSE s
Trim(s) == TrimRight(TrimLeft(s))

\* the first index >= i of s that holds no digit (Len(s) + 1 when there is none)
RECURSIVE DigitsEnd(_, _)
DigitsEnd(s, i) == IF i <= Len(s) /\ IsDigit(s[i]) THEN DigitsEnd(s, i + 1) ELSE i
RECURSIVE SpacesEnd(_, _)
SpacesEnd(s, i) == IF i <= Len(s) /\ IsSpace(s[i]) THEN SpacesEnd(s, i + 1) ELSE i

\* One optional group (?:(\d+)<unit>\s*)? of the regular expression, tried at
\* index i: the group takes part when a run of digits is followed by the unit.
\* Everything right of a group is optional, so a group that can match is never
\* given up by backtracking.
MatchGroup(s, i, unit, spaces) ==
    LET j == DigitsEnd(s, i)
    IN  IF j > i /\ j <= Len(s) /\ s[j] = unit
        THEN [cap |-> SubSeq(s, i, j - 1),
              next |-> IF spaces THEN SpacesEnd(s, j + 1) ELSE j + 1]
        ELSE [cap |-> <<>>, next |-> i]

\* String.prototype.match with the regular expression of parseTimeToSeconds:
\* each of its four groups is optional, so it matches (possibly the empty
\* text) at index 0 of every string; cap = <<>> stands for an undefined capture.
RegexMatch(s) ==
    LET gw == MatchGroup(s, 1, "w", TRUE)
        gd == MatchGroup(s, gw.next, "d", TRUE)
        gh == MatchGroup(s, gd.next, "h", TRUE)
        gm == MatchGroup(s, gh.next, "m", FALSE)
    IN  [matched |-> TRUE, w |-> gw.cap, d |-> gd.cap, h |-> gh.cap, m |-> gm.cap]

DigitVal(c) ==
    CASE c = "0" -> 0 [] c = "1" -> 1 [] c = "2" -> 2 [] c = "3" -> 3
      [] c = "4" -> 4 [] c = "5" -> 5 [] c = "6" -> 6 [] c = "7" -> 7
      [] c = "8" -> 8 [] c = "9" -> 9

\* parseInt(cap || '0') on a run of digits
RECURSIVE ParseIntFrom(_, _)
ParseIntFrom(ds, acc) ==
    IF ds = <<>> THEN acc ELSE ParseIntFrom(Tail(ds), acc * 10 + DigitVal(Head(ds)))
ParseInt(cap) == IF cap = <<>> THEN 0 ELSE ParseIntFrom(cap, 0)

Null == [isNull |-> TRUE, value |-> 0]
Number(n) == [isNull |-> FALSE, value |-> n]

\* parseTimeToSeconds with calendar days and weeks (24 hours, 7 days)
parseTimeToSeconds_Calendar(timeStr) ==
    LET match == RegexMatch(Trim(timeStr))
    IN  IF ~match.matched THEN Null
        ELSE Number((ParseInt(match.w) * 7 * 24 * 3600) + (ParseInt(match.d) * 24 * 3600)
                      + (ParseInt(match.h) * 3600) + (ParseInt(match.m) * 60))

parseTimeToSeconds(timeStr) ==
    LET match == RegexMatch(Trim(timeStr))
    IN  IF ~match.matched THEN Null
        ELSE LET weeks == ParseInt(match.w)
                 days == ParseInt(match.d)
                 hours == ParseInt(match.h)
                 minutes == ParseInt(match.m)
             IN  Number((weeks * 5 * 8 * 3600) + (days * 8 * 3600)
                          + (hours * 3600) + (minutes * 60))

-----------------------------------------------------------------------------
\* Dates. A Date is a count of hours since 1970-01-01T00:00Z, a Thursday; the
\* hour is the resolution of the model's clock, and the last hour of a day
\* stands for 23:59:59.999. The local fields of a Date are those of the
\* instant shifted by the server's offset off. A 'YYYY-MM-DD' string is
\* modelled by the number of its day since 1970-01-01.

HoursPerDay == 24

Hour(day, hour) == day * HoursPerDay + hour

MonthLengths == <<31, 28, 31, 30, 31, 30, 31, 31, 30, 31, 30, 31>>

\* the day (since 1970-01-01) on which month m (0 = January 1970) begins
RECURSIVE MonthStart(_)
MonthStart(m) == IF m = 0 THEN 0 ELSE MonthStart(m - 1) + MonthLengths[m]

\* the month of a day of 1970
RECURSIVE MonthFrom(_, _)
MonthFrom(day, m) ==
    IF m = 11 \/ day < MonthStart(m + 1) THEN m ELSE MonthFrom(day, m + 1)
MonthOfDay(day) == MonthFrom(day, 0)

LocalDay(t, off) == (t + off) \div HoursPerDay
LocalHour(t, off) == (t + off) % HoursPerDay

\* Date.prototype.getDay: 0 = Sunday
getDay(t, off) == (LocalDay(t, off) + 4) % 7
\* Date.prototype.getDate: the day of the month, from 1
getDate(t, off) == LocalDay(t, off) - MonthStart(MonthOfDay(LocalDay(t, off))) + 1
\* Date.prototype.getMonth
getMonth(t, off) == MonthOfDay(LocalDay(t, off))

\* Date.prototype.setDate(n): day n of the Date's own month, where n <= 0 and
\* n beyond the month's length run into the neighbouring months; the local
\* time of day is kept
setDate(t, n, off) ==
    LET first == MonthStart(MonthOfDay(LocalDay(t, off)))
    IN  Hour(first + n - 1, LocalHour(t, off)) - off
\* Date.prototype.setHours(0, 0, 0, 0)
setHoursStart(t, off) == Hour(LocalDay(t, off), 0) - off
\* Date.prototype.setHours(23, 59, 59, 999)
setHoursEnd(t, off) == Hour(LocalDay(t, off), HoursPerDay - 1) - off

\* Date.prototype.toISOString().split('T')[0]: the date in UTC
IsoDate(t) == t \div HoursPerDay

dayNames == <<"Domingo", "Lunes", "Martes", "Miercoles", "Jueves", "Viernes", "Sabado">>

\* The week of the two worklog routes. now, startNow and endNow are the three
\* readings of the clock (new Date()) the handler takes one after another.
daysToMonday(now, off) == IF getDay(now, off) = 0 THEN 6 ELSE getDay(now, off) - 1
daysToSunday(now, off) == IF getDay(now, off) = 0 THEN 0 ELSE 7 - getDay(now, off)
WeekStart(now, startNow, off) ==
    setHoursStart(setDate(startNow, getDate(now, off) - daysToMonday(now, off), off), off)
WeekEnd(now, endNow, off) ==
    setHoursEnd(setDate(endNow, getDate(now, off) + daysToSunday(now, off), off), off)

-----------------------------------------------------------------------------
\* The parser on its inputs.

NoTokens == [w |-> -1, d |-> -1, h |-> -1, m |-> -1]
TokenCounts == [w : Counts \cup {-1}, d : Counts \cup {-1}, h : Counts \cup {-1}, m : Counts \cup {-1}]

\* the view not yet opened in a browser
Absent == <<>>
UnmountedApp ==
    [mounted |-> FALSE, starredProjects |-> <<>>, error |-> "null",
     theme |-> "light", selectedProject |-> "",
     customJql |-> [where |-> "assignee = currentUser()", order |-> "updated DESC"],
     issues |-> <<>>, loading |-> FALSE,
     selectedIssue |-> "null", detailLoading |-> FALSE,
     showTimesheet |-> FALSE, showWorklogSummary |-> FALSE]
\* a local-storage entry: not there, or a text
NoEntry == [set |-> FALSE, value |-> ""]
Entry(text) == [set |-> TRUE, value |-> text]
NothingNoted ==
    [themeAtMount |-> "light", themes |-> <<>>,
     started |-> 0, last |-> 0, lastResult |-> <<>>, overlapped |-> FALSE,
     details |-> 0, closed |-> FALSE]
NotCalled == [called |-> FALSE, timeSpent |-> <<>>, editing |-> "null", sent |-> <<>>, updates |-> 0]
ClosedPanel ==
    [timeSpent |-> <<>>, editing |-> "null", saving |-> FALSE, pc |-> "idle",
     sent |-> <<>>, updates |-> 0, alerts |-> 0, runs |-> 0, last |-> NotCalled]
EmptyBoard == [issues |-> <<>>, columns |-> <<>>, renders |-> 0]
ComponentsIdle ==
    /\ board = EmptyBoard
    /\ panel = ClosedPanel
AppIdle ==
    /\ themeStorage = NoEntry
    /\ searches = <<>>
    /\ noted = NothingNoted
NoFetch == [op |-> "none", then |-> "none"]
NoData ==
    [timesheet |-> [set |-> FALSE, body |-> [data |-> "null"]],
     summary |-> [set |-> FALSE, body |-> [data |-> "null"]]]
BlankScreen == [crashed |-> FALSE, errorDialog |-> "none", weekBar |-> <<>>, dayBars |-> <<>>]
FetchIdle ==
    /\ pending = NoFetch
    /\ settled = <<>>
    /\ panelData = NoData
    /\ screen = BlankScreen
ViewIdle ==
    /\ localStorage = Absent
    /\ app = UnmountedApp
    /\ toggled = <<>>
    /\ FetchIdle
    /\ ComponentsIdle
    /\ AppIdle

\* process.env.PORT: not set, or set to a port number
NoPort == [set |-> FALSE, value |-> 0]
PortSet(n) == [set |-> TRUE, value |-> n]

ServerIdle ==
    /\ tz = 0
    /\ listen = [PORT |-> NoPort, port |-> 0]
    /\ h = <<>>
    /\ resp = <<>>
    /\ calls = <<>>
    /\ replies = <<>>
    /\ reads = <<>>
    /\ mixed = <<>>

ParseInit ==
    /\ ppc = "ready"
    /\ result = Null
    /\ \/ /\ structured = TRUE
          /\ tok \in TokenCounts
          /\ \E sep \in 1..MaxSep, lead \in 0..MaxPad, trail \in 0..MaxPad :
                input = Render(tok, sep, lead, trail)
       \/ /\ structured = FALSE
          /\ tok = NoTokens
          /\ input \in Strings
    /\ ServerIdle
    /\ ViewIdle

Parse ==
    /\ ppc = "ready"
    /\ result' = parseTimeToSeconds(input)
    /\ ppc' = "parsed"
    /\ UNCHANGED <<input, tok, structured, serverVars, viewVars>>

ParseNext == Parse

SpecParse == ParseInit /\ [][ParseNext]_vars

-----------------------------------------------------------------------------
\* Properties of the parser.

Count(n) == IF n < 0 THEN 0 ELSE n
OneHourThirty == <<"1", "h", " ", "3", "0", "m">>

\* C1: a text made of the tokens <n>w <n>d <n>h <n>m, in that order, separated
\* by whitespace and with at least one token present, parses to
\* weeks*144000 + days*28800 + hours*3600 + minutes*60 seconds, and "1h 30m"
\* parses to 5400.
C1_TokenSum ==
    ppc = "parsed" =>
        /\ (structured /\ tok # NoTokens) =>
              result = Number(Count(tok.w) * 144000 + Count(tok.d) * 28800
                                + Count(tok.h) * 3600 + Count(tok.m) * 60)
        /\ input = OneHourThirty => result = Number(5400)

C1_Witness ==
    /\ ppc = "parsed"
    /\ input = OneHourThirty
    /\ structured
    /\ tok = [w |-> -1, d |-> -1, h |-> 1, m |-> 30]
    /\ result = Number(5400)

\* no group of the regular expression captured anything
NoTokenMatches(s) ==
    LET match == RegexMatch(Trim(s))
    IN  match.w = <<>> /\ match.d = <<>> /\ match.h = <<>> /\ match.m = <<>>

\* C2: parseTimeToSeconds returns null for the empty string and for every
\* string in which no duration token matches.
C2_NullWhenUnmatched ==
    (ppc = "parsed" /\ (input = <<>> \/ NoTokenMatches(input))) => result.isNull

-----------------------------------------------------------------------------
\* What the upstream tracker and the clock hand to the server.

\* the account of the current user (GET /myself)
Me == "me"

Jan(d) == d - 1
Feb(d) == 31 + d - 1

\* the server's timezone offsets, in hours
Offsets == {-5, 0, 2}
\* the instants a handler may read from the clock first: Wednesday 28 January
\* 10:00Z and Sunday 1 February 23:00Z, an hour before the week of UTC ends; a
\* later reading in the same handler is the same instant or the next
NowSet == {Hour(Jan(28), 10), Hour(Feb(1), 23)}

Issue(k, s) == [key |-> k, summary |-> s]
IssueLists == {SubSeq(<<Issue("K1", "S1"), Issue("K2", "S2"), Issue("K3", "S3")>>, 1, n) : n \in 0..MaxIssues}

Worklog(a, t, n) == [author |-> a, started |-> t, timeSpentSeconds |-> n]
WorklogValues ==
    { Worklog(Me, Hour(Jan(26), 2), 14400),      \* Monday 02:00Z, 4 hours
      Worklog(Me, Hour(Jan(28), 23), 36000),     \* Wednesday 23:00Z, 10 hours
      Worklog(Me, Hour(Feb(1), 2), 1800),        \* Sunday 02:00Z, 30 minutes
      Worklog("other", Hour(Jan(28), 23), 7200), \* a colleague's
      Worklog(Me, Hour(Jan(20), 12), 3600) }     \* the week before

RECURSIVE SeqsOfLen(_, _)
SeqsOfLen(S, n) ==
    IF n = 0 THEN {<<>>} ELSE {Append(q, x) : q \in SeqsOfLen(S, n - 1), x \in S}
SeqsUpTo(S, n) == UNION {SeqsOfLen(S, k) : k \in 0..n}

IssueType(i, n, st) == [id |-> i, name |-> n, subtask |-> st]
IssueTypeValues ==
    { IssueType("10001", "Story", FALSE), IssueType("10002", "Subtask", FALSE),
      IssueType("10005", "Sub-tarea", TRUE), IssueType("10007", "Subtask", TRUE) }

Periods == {"absent", "week", "month", "all", "year"}

\* upstream failures: an HTTP error reply carries a payload, a network error
\* carries none
FailureKinds == {"http", "network"}

-----------------------------------------------------------------------------
\* The routes.

SimpleRoutes ==
    {"projects", "issues", "issue", "putIssue", "postWorklog", "comment", "statuses",
     "transitions", "postTransition", "getSubtasks", "health"}
Routes == SimpleRoutes \cup {"daily", "worklogs", "postSubtasks"}
\* the routes with an :issueKey parameter
KeyedRoutes ==
    {"issue", "putIssue", "postWorklog", "comment", "transitions", "postTransition",
     "getSubtasks", "postSubtasks"}

\* the error string of a route's catch block
ErrorMessage(route) ==
    CASE route = "projects" -> "Failed to fetch projects"
      [] route = "issues" -> "Failed to fetch issues"
      [] route = "issue" -> "Failed to fetch issue"
      [] route = "putIssue" -> "Failed to update issue"
      [] route = "daily" -> "Failed to fetch daily worklogs"
      [] route = "worklogs" -> "Failed to fetch worklogs"
      [] route = "postWorklog" -> "Failed to add worklog"
      [] route = "comment" -> "Failed to add comment"
      [] route = "statuses" -> "Failed to fetch statuses"
      [] route = "transitions" -> "Failed to fetch transitions"
      [] route = "postTransition" -> "Failed to transition issue"
      [] route = "getSubtasks" -> "Failed to fetch subtasks"
      [] route = "postSubtasks" -> "Failed to create subtask"

\* the routes whose catch block adds details: error.response?.data
DetailRoutes ==
    {"issues", "putIssue", "daily", "worklogs", "postWorklog", "comment",
     "postTransition", "postSubtasks"}

\* ErrorBody with the shape of the health check's error on every route
ErrorBody_HealthShape(route, kind) ==
    [status |-> "error", message |-> "Failed to connect to Jira",
     details |-> IF kind = "http" THEN "upstream payload" ELSE "error message"]

\* The body of a route's 500 response. res.json leaves out a field whose value
\* is undefined, so details is there only when upstream replied with a payload.
ErrorBody(route, kind) ==
    IF route = "health"
    THEN [status |-> "error", message |-> "Failed to connect to Jira",
          details |-> IF kind = "http" THEN "upstream payload" ELSE "error message"]
    ELSE IF route \in DetailRoutes /\ kind = "http"
    THEN [error |-> ErrorMessage(route), details |-> "upstream payload"]
    ELSE [error |-> ErrorMessage(route)]

\* the body a single-call route answers with when its upstream call succeeds
SuccessBody(route) ==
    IF route = "health"
    THEN [status |-> "ok", message |-> "Connected to Jira", user |-> "display name"]
    ELSE IF route \in {"putIssue", "postWorklog", "comment", "postTransition"}
    THEN [success |-> TRUE, data |-> "upstream data"]
    ELSE [data |-> "upstream data"]

\* the upstream endpoint of a single-call route
Endpoint(route) ==
    CASE route = "projects" -> "GET /project"
      [] route = "issues" -> "GET /search/jql"
      [] route = "issue" -> "GET /issue/:key"
      [] route = "putIssue" -> "PUT /issue/:key"
      [] route = "postWorklog" -> "POST /issue/:key/worklog"
      [] route = "comment" -> "POST /issue/:key/comment"
      [] route = "statuses" -> "GET /status"
      [] route = "transitions" -> "GET /issue/:key/transitions"
      [] route = "postTransition" -> "POST /issue/:key/transitions"
      [] route = "getSubtasks" -> "GET /issue/:key"
      [] route = "health" -> "GET /myself"

-----------------------------------------------------------------------------
\* GET /api/worklogs/daily.

\* Math.round(a / b) for a >= 0, b > 0: halves go up
MathRound(a, b) == (2 * a + b) \div (2 * b)

\* obj[key] = val on an object whose values carry their key in .date: a new
\* key goes last, an old key keeps its place (Object.values lists the values
\* in the order their keys were first set)
ObjPut(obj, key, val) ==
    IF \E i \in DOMAIN obj : obj[i].date = key
    THEN [i \in DOMAIN obj |-> IF obj[i].date = key THEN val ELSE obj[i]]
    ELSE Append(obj, val)
HasKey(obj, key) == \E i \in DOMAIN obj : obj[i].date = key

\* the entries for the 7 days of the week, the first i of them
RECURSIVE DailyTotalsUpTo(_, _, _)
DailyTotalsUpTo(startDate, off, i) ==
    IF i = 0 THEN <<>>
    ELSE LET date == setDate(startDate, getDate(startDate, off) + (i - 1), off)
             dateStr == IsoDate(date)
         IN  ObjPut(DailyTotalsUpTo(startDate, off, i - 1), dateStr,
                    [date |-> dateStr, dayName |-> dayNames[getDay(date, off) + 1],
                     totalSeconds |-> 0, worklogs |-> <<>>])
InitDailyTotals(startDate, off) == DailyTotalsUpTo(startDate, off, 7)

\* Counted without the test of the author
Counted_AnyAuthor(worklog, accountId, startDate, endDate) ==
    /\ worklog.started >= startDate
    /\ worklog.started <= endDate

\* whether the worklog is the current user's and started inside the window
Counted(worklog, accountId, startDate, endDate) ==
    /\ worklog.author = accountId
    /\ worklog.started >= startDate
    /\ worklog.started <= endDate

\* AddDaily without the line that adds to the week's total
AddDaily_NoWeekTotal(acc, issue, worklog, accountId, startDate, endDate) ==
    LET dateStr == IsoDate(worklog.started)
    IN  IF Counted(worklog, accountId, startDate, endDate) /\ HasKey(acc.dailyTotals, dateStr)
        THEN [acc EXCEPT !.dailyTotals =
                [i \in DOMAIN acc.dailyTotals |->
                    IF acc.dailyTotals[i].date = dateStr
                    THEN [acc.dailyTotals[i] EXCEPT
                            !.totalSeconds = @ + worklog.timeSpentSeconds,
                            !.worklogs = Append(@, [issueKey |-> issue.key,
                                                    summary |-> issue.summary,
                                                    timeSpentSeconds |-> worklog.timeSpentSeconds,
                                                    started |-> worklog.started])]
                    ELSE acc.dailyTotals[i]]]
        ELSE acc

\* the body of the loop over one issue's worklogs; acc holds dailyTotals and
\* totalSeconds
AddDaily(acc, issue, worklog, accountId, startDate, endDate) ==
    LET dateStr == IsoDate(worklog.started)
    IN  IF Counted(worklog, accountId, startDate, endDate) /\ HasKey(acc.dailyTotals, dateStr)
        THEN [dailyTotals |->
                [i \in DOMAIN acc.dailyTotals |->
                    IF acc.dailyTotals[i].date = dateStr
                    THEN [acc.dailyTotals[i] EXCEPT
                            !.totalSeconds = @ + worklog.timeSpentSeconds,
                            !.worklogs = Append(@, [issueKey |-> issue.key,
                                                    summary |-> issue.summary,
                                                    timeSpentSeconds |-> worklog.timeSpentSeconds,
                                                    started |-> worklog.started])]
                    ELSE acc.dailyTotals[i]],
              totalSeconds |-> acc.totalSeconds + worklog.timeSpentSeconds]
        ELSE acc

RECURSIVE AddDailyAll(_, _, _, _, _, _)
AddDailyAll(acc, issue, worklogs, accountId, startDate, endDate) ==
    IF worklogs = <<>> THEN acc
    ELSE AddDailyAll(AddDaily(acc, issue, Head(worklogs), accountId, startDate, endDate),
                     issue, Tail(worklogs), accountId, startDate, endDate)

\* Progress clamped to 100, as the progress bars of the view are
Progress_Clamped(seconds, goalHours) ==
    IF MathRound(seconds * 100, goalHours * 3600) > 100 THEN 100
    ELSE MathRound(seconds * 100, goalHours * 3600)

\* the percentage of a goal of goalHours hours
Progress(seconds, goalHours) == MathRound(seconds * 100, goalHours * 3600)

DailyBody(dailyTotals, totalSeconds, startDate, endDate) ==
    [weekStart |-> IsoDate(startDate),
     weekEnd |-> IsoDate(endDate),
     dailyData |-> [i \in DOMAIN dailyTotals |->
                      [date |-> dailyTotals[i].date,
                       dayName |-> dailyTotals[i].dayName,
                       totalSeconds |-> dailyTotals[i].totalSeconds,
                       worklogs |-> dailyTotals[i].worklogs,
                       goalHours |-> 8,
                       progress |-> Progress(dailyTotals[i].totalSeconds, 8)]],
     totalSeconds |-> totalSeconds,
     weeklyGoalHours |-> 40,
     weeklyProgress |-> Progress(totalSeconds, 40)]

-----------------------------------------------------------------------------
\* GET /api/worklogs.

\* Date.prototype.setMonth(m, d): day d of month m of the Date's year
setMonth(t, m, d, off) == Hour(MonthStart(m) + d - 1, LocalHour(t, off)) - off

\* req.query.period with its default
PeriodOf(param) == IF param = "absent" THEN "week" ELSE param

PeriodStart(period, now, startNow, off) ==
    IF period = "week" THEN WeekStart(now, startNow, off)
    ELSE IF period = "month" THEN setHoursStart(setDate(startNow, 1, off), off)
    ELSE setDate(startNow, getDate(now, off) - 365, off)

PeriodEnd(period, now, endNow, off) ==
    LET today == setHoursEnd(endNow, off)
    IN  IF period = "week" THEN WeekEnd(now, today, off)
        ELSE IF period = "month"
        THEN setHoursEnd(setMonth(today, getMonth(now, off) + 1, 0, off), off)
        ELSE setHoursEnd(today, off)

\* the loop over one issue's worklogs: issueTotal and issueWorklogs
RECURSIVE IssueWorklogs(_, _, _, _)
IssueWorklogs(worklogs, accountId, startDate, endDate) ==
    IF worklogs = <<>> THEN <<>>
    ELSE LET rest == IssueWorklogs(Tail(worklogs), accountId, startDate, endDate)
         IN  IF Counted(Head(worklogs), accountId, startDate, endDate)
             THEN <<[timeSpentSeconds |-> Head(worklogs).timeSpentSeconds,
                     started |-> Head(worklogs).started]>> \o rest
             ELSE rest
RECURSIVE SumSeconds(_)
SumSeconds(ws) == IF ws = <<>> THEN 0 ELSE Head(ws).timeSpentSeconds + SumSeconds(Tail(ws))

\* one pass of the loop over the issues; acc holds worklogsByIssue and totalSeconds
AddIssue(acc, issue, worklogs, accountId, startDate, endDate) ==
    LET issueWorklogs == IssueWorklogs(worklogs, accountId, startDate, endDate)
        issueTotal == SumSeconds(issueWorklogs)
    IN  [worklogsByIssue |->
            IF issueTotal > 0
            THEN Append(acc.worklogsByIssue,
                        [issueKey |-> issue.key, summary |-> issue.summary,
                         totalSeconds |-> issueTotal, worklogs |-> issueWorklogs])
            ELSE acc.worklogsByIssue,
         totalSeconds |-> acc.totalSeconds + issueTotal]

WorklogsBody(period, worklogsByIssue, totalSeconds) ==
    [period |-> period, totalSeconds |-> totalSeconds, worklogsByIssue |-> worklogsByIssue]

-----------------------------------------------------------------------------
\* POST /api/issues/:issueKey/subtasks.

DefaultSubtaskTypeId == "10003"

\* FindSubtaskTypeId without the break: the last match wins
RECURSIVE FindSubtaskTypeId_NoBreak(_)
FindSubtaskTypeId_NoBreak(issueTypes) ==
    IF issueTypes = <<>> THEN DefaultSubtaskTypeId
    ELSE LET t == issueTypes[Len(issueTypes)]
         IN  IF t.name = "Subtask" \/ t.subtask = TRUE THEN t.id
             ELSE FindSubtaskTypeId_NoBreak(SubSeq(issueTypes, 1, Len(issueTypes) - 1))

\* the loop that looks for the subtask issue type
RECURSIVE FindSubtaskTypeId(_)
FindSubtaskTypeId(issueTypes) ==
    IF issueTypes = <<>> THEN DefaultSubtaskTypeId
    ELSE IF Head(issueTypes).name = "Subtask" \/ Head(issueTypes).subtask = TRUE
    THEN Head(issueTypes).id
    ELSE FindSubtaskTypeId(Tail(issueTypes))

\* the fields of the issue the handler asks upstream to create
CreatePayload(projectKey, issueKey, summary, subtaskTypeId) ==
    [project |-> projectKey, parent |-> issueKey, summary |-> summary,
     issuetype |-> subtaskTypeId]

-----------------------------------------------------------------------------
\* The handlers. A handler runs from one await to the next without giving up
\* the thread, so each action below is the code between two awaits: it takes
\* the outcome of the awaited upstream call and runs up to the next upstream
\* call or to the response.

IdleHandler ==
    [pc |-> "idle", route |-> "none", issueKey |-> "none", summary |-> "none",
     query |-> "none", period |-> "none", accountId |-> "none",
     startDate |-> 0, endDate |-> 0, issues |-> <<>>, next |-> 0,
     dailyTotals |-> <<>>, totalSeconds |-> 0, worklogsByIssue |-> <<>>,
     projectKey |-> "none", subtaskTypeId |-> "none", dateStr |-> <<>>,
     created |-> "none"]

\* Locals with totalSeconds declared outside the handler: one variable for
\* all the requests
Locals_SharedTotal(hh, r, new) ==
    [q \in DOMAIN hh |->
        IF q = r THEN new ELSE [hh[q] EXCEPT !.totalSeconds = new.totalSeconds]]

\* the handler's own variables: each run of a handler has its own
Locals(hh, r, new) == [hh EXCEPT ![r] = new]

\* res.json(body) and res.status(500).json(body)
Respond(rs, r, status, body) == [rs EXCEPT ![r] = Append(@, [status |-> status, body |-> body])]

\* Call that makes the call a second time
Call_Again(cs, r, ep, arg) ==
    [cs EXCEPT ![r] = Append(Append(@, [ep |-> ep, arg |-> arg]), [ep |-> ep, arg |-> arg])]

\* jiraApi.get / post / put: one call to the upstream API
Call(cs, r, ep, arg) == [cs EXCEPT ![r] = Append(@, [ep |-> ep, arg |-> arg])]

Ok(data) == [ok |-> TRUE, kind |-> "none", data |-> data]
Failed(kind) == [ok |-> FALSE, kind |-> kind, data |-> "none"]
Reply(ps, r, outcome) == [ps EXCEPT ![r] = Append(@, outcome)]

\* The data the environment draws from: everything for a server that handles
\* one request, little for a server that handles several at a time.
Rich ==
    [routes |-> Routes, issueKeys |-> {"PRJ-1", "OPS-7"}, periods |-> Periods, nows |-> NowSet, drift |-> 1,
     issueLists |-> IssueLists, worklogValues |-> WorklogValues, worklogs |-> MaxWorklogs,
     kinds |-> FailureKinds,
     projectKeys |-> {"PRJ", "OPS"}, typeLists |-> SeqsUpTo(IssueTypeValues, MaxTypes)]
Small ==
    [routes |-> {"daily", "worklogs", "postSubtasks", "health"},
     issueKeys |-> {"PRJ-1"}, periods |-> {"month"}, nows |-> {Hour(Jan(28), 10)}, drift |-> 0,
     issueLists |-> {<<Issue("K1", "S1"), Issue("K2", "S2")>>},
     worklogValues |-> {Worklog(Me, Hour(Jan(28), 23), 36000)}, worklogs |-> 1,
     kinds |-> {"http"},
     projectKeys |-> {"PRJ"}, typeLists |-> {<<IssueType("10007", "Subtask", TRUE)>>}]

\* the instants of the week from Monday 26 January to Sunday 1 February, three
\* a day: every weekday, the turn of a month and the two ends of a week
ClockSet == { Hour(day, hour) : day \in Jan(26)..Feb(1), hour \in {0, 12, HoursPerDay - 1} }
\* the data for the windows of the two worklog routes: every period on every
\* day of a week, and no issue found
Calendar ==
    [routes |-> {"daily", "worklogs"},
     issueKeys |-> {"none"}, periods |-> Periods, nows |-> ClockSet, drift |-> 1,
     issueLists |-> {<<>>}, worklogValues |-> {}, worklogs |-> 0,
     kinds |-> {"http"},
     projectKeys |-> {}, typeLists |-> {}]

\* the worklogs upstream has already handed to request r
RECURSIVE WorklogsHanded(_, _, _)
WorklogsHanded(cs, ps, i) ==
    IF i = 0 THEN 0
    ELSE WorklogsHanded(cs, ps, i - 1)
           + (IF cs[i].ep = "GET /issue/:key/worklog" /\ ps[i].ok THEN Len(ps[i].data) ELSE 0)
WorklogReplies(r, d) ==
    SeqsUpTo(d.worklogValues, d.worklogs - WorklogsHanded(calls[r], replies[r], Len(replies[r])))

InFlight(hr) == hr.pc \notin {"idle", "done"}

\* the record of the interleaving, kept for the properties: the handler of
\* request r runs one step; mixed[r] holds once it has resumed after an await
\* while the handler of another request was between its first and last step
Mark(r) ==
    [mixed EXCEPT ![r] = @ \/ (h[r].pc # "idle" /\ \E q \in DOMAIN h \ {r} : InFlight(h[q]))]

\* the upstream call a route makes first
FirstCall(route) ==
    IF route \in SimpleRoutes THEN [pc |-> "single", ep |-> Endpoint(route)]
    ELSE IF route = "postSubtasks" THEN [pc |-> "parent", ep |-> "GET /issue/:key"]
    ELSE [pc |-> "myself", ep |-> "GET /myself"]

\* a request arrives and its handler runs up to its first upstream call
Receive(r, d) ==
    /\ h[r].pc = "idle"
    /\ \E route \in d.routes :
       \E key \in (IF route \in KeyedRoutes THEN d.issueKeys ELSE {"none"}),
          query \in (IF route = "worklogs" THEN d.periods ELSE {"none"}) :
          /\ h' = Locals(h, r, [IdleHandler EXCEPT
                                  !.pc = FirstCall(route).pc,
                                  !.route = route,
                                  !.issueKey = key,
                                  !.summary = IF route = "postSubtasks" THEN "Daily report" ELSE "none",
                                  !.query = query,
                                  !.period = IF route = "worklogs" THEN PeriodOf(query) ELSE "none"])
          /\ calls' = Call(calls, r, FirstCall(route).ep, key)
    /\ UNCHANGED <<parseVars, viewVars, tz, listen, resp, replies, reads>>
    /\ mixed' = Mark(r)

\* the awaits of the outer try block of a route
OuterAwaits == {"single", "myself", "search", "parent", "types", "create"}

\* OuterFail that posts the template comment after a failed create
OuterFail_PostsComment(r, d) ==
    /\ h[r].pc \in OuterAwaits
    /\ \E kind \in d.kinds :
          /\ replies' = Reply(replies, r, Failed(kind))
          /\ IF h[r].pc = "create"
             THEN /\ resp' = resp
                  /\ h' = Locals(h, r, [h[r] EXCEPT !.pc = "comment"])
                  /\ calls' = Call(calls, r, "POST /issue/:key/comment", "none")
             ELSE /\ resp' = Respond(resp, r, 500, ErrorBody(h[r].route, kind))
                  /\ h' = Locals(h, r, [h[r] EXCEPT !.pc = "done"])
                  /\ calls' = calls
    /\ UNCHANGED <<parseVars, viewVars, tz, listen, reads>>
    /\ mixed' = Mark(r)

\* an upstream call of the outer try block fails: the route's catch block
OuterFail(r, d) ==
    /\ h[r].pc \in OuterAwaits
    /\ \E kind \in d.kinds :
          /\ replies' = Reply(replies, r, Failed(kind))
          /\ resp' = Respond(resp, r, 500, ErrorBody(h[r].route, kind))
    /\ h' = Locals(h, r, [h[r] EXCEPT !.pc = "done"])
    /\ UNCHANGED <<parseVars, viewVars, tz, listen, calls, reads>>
    /\ mixed' = Mark(r)

\* the upstream call of a single-call route succeeds
SimpleOk(r, d) ==
    /\ h[r].pc = "single"
    /\ replies' = Reply(replies, r, Ok("upstream data"))
    /\ resp' = Respond(resp, r, 200, SuccessBody(h[r].route))
    /\ h' = Locals(h, r, [h[r] EXCEPT !.pc = "done"])
    /\ UNCHANGED <<parseVars, viewVars, tz, listen, calls, reads>>
    /\ mixed' = Mark(r)

\* GET /myself succeeds in one of the two worklog routes: the handler reads the
\* clock three times, computes its window and searches the issues
MyselfOk(r, d) ==
    /\ h[r].pc = "myself"
    /\ \E now \in d.nows :
       \E startNow \in now..(now + d.drift) :
       \E endNow \in startNow..(startNow + d.drift) :
          LET startDate == IF h[r].route = "daily" THEN WeekStart(now, startNow, tz)
                           ELSE PeriodStart(h[r].period, now, startNow, tz)
              endDate == IF h[r].route = "daily" THEN WeekEnd(now, endNow, tz)
                         ELSE PeriodEnd(h[r].period, now, endNow, tz)
          IN  /\ reads' = [reads EXCEPT ![r] = <<now, startNow, endNow>>]
              /\ h' = Locals(h, r, [h[r] EXCEPT !.pc = "search", !.accountId = Me,
                                                !.startDate = startDate, !.endDate = endDate])
              /\ calls' = Call(calls, r, "GET /search/jql", IsoDate(startDate))
    /\ replies' = Reply(replies, r, Ok(Me))
    /\ UNCHANGED <<parseVars, viewVars, tz, listen, resp>>
    /\ mixed' = Mark(r)

\* the success body of the two worklog routes
FinalBody(hr) ==
    IF hr.route = "daily"
    THEN DailyBody(hr.dailyTotals, hr.totalSeconds, hr.startDate, hr.endDate)
    ELSE WorklogsBody(hr.period, hr.worklogsByIssue, hr.totalSeconds)

\* WorklogCatch answering like the route's catch block
WorklogCatch_Respond(rs, r, route, kind) ==
    [rs EXCEPT ![r] = Append(@, [status |-> 500, body |-> ErrorBody(route, kind)])]

\* the inner catch block of the loop over the issues: it logs and goes on
WorklogCatch(rs, r, route, kind) == rs

\* The loop over the issues, from the end of one pass (hr holds the handler's
\* variables, rs the responses sent) to the next await or, past the last
\* issue, to the response.
Advance(r, hr, rs) ==
    IF hr.next < Len(hr.issues)
    THEN /\ h' = Locals(h, r, [hr EXCEPT !.pc = "worklog", !.next = @ + 1])
         /\ calls' = Call(calls, r, "GET /issue/:key/worklog", hr.issues[hr.next + 1].key)
         /\ resp' = rs
    ELSE /\ h' = Locals(h, r, [hr EXCEPT !.pc = "done"])
         /\ calls' = calls
         /\ resp' = Respond(rs, r, 200, FinalBody(hr))

\* the issue search succeeds
SearchOk(r, d) ==
    /\ h[r].pc = "search"
    /\ \E issues \in d.issueLists :
          /\ replies' = Reply(replies, r, Ok(issues))
          /\ Advance(r, [h[r] EXCEPT
                            !.issues = issues,
                            !.next = 0,
                            !.dailyTotals = IF h[r].route = "daily"
                                            THEN InitDailyTotals(h[r].startDate, tz)
                                            ELSE <<>>,
                            !.totalSeconds = 0,
                            !.worklogsByIssue = <<>>],
                     resp)
    /\ UNCHANGED <<parseVars, viewVars, tz, listen, reads>>
    /\ mixed' = Mark(r)

\* the worklogs of the issue at hand arrive
WorklogOk(r, d) ==
    /\ h[r].pc = "worklog"
    /\ \E worklogs \in WorklogReplies(r, d) :
          LET hr == h[r]
              issue == hr.issues[hr.next]
              daily == AddDailyAll([dailyTotals |-> hr.dailyTotals, totalSeconds |-> hr.totalSeconds],
                                   issue, worklogs, hr.accountId, hr.startDate, hr.endDate)
              byIssue == AddIssue([worklogsByIssue |-> hr.worklogsByIssue,
                                   totalSeconds |-> hr.totalSeconds],
                                  issue, worklogs, hr.accountId, hr.startDate, hr.endDate)
          IN  /\ replies' = Reply(replies, r, Ok(worklogs))
              /\ Advance(r, IF hr.route = "daily"
                            THEN [hr EXCEPT !.dailyTotals = daily.dailyTotals,
                                            !.totalSeconds = daily.totalSeconds]
                            ELSE [hr EXCEPT !.worklogsByIssue = byIssue.worklogsByIssue,
                                            !.totalSeconds = byIssue.totalSeconds],
                         resp)
    /\ UNCHANGED <<parseVars, viewVars, tz, listen, reads>>
    /\ mixed' = Mark(r)

\* the fetch of the worklogs of the issue at hand fails
WorklogFail(r, d) ==
    /\ h[r].pc = "worklog"
    /\ \E kind \in d.kinds :
          /\ replies' = Reply(replies, r, Failed(kind))
          /\ Advance(r, h[r], WorklogCatch(resp, r, h[r].route, kind))
    /\ UNCHANGED <<parseVars, viewVars, tz, listen, reads>>
    /\ mixed' = Mark(r)

\* the parent issue arrives
ParentOk(r, d) ==
    /\ h[r].pc = "parent"
    /\ \E projectKey \in d.projectKeys :
          /\ replies' = Reply(replies, r, Ok(projectKey))
          /\ h' = Locals(h, r, [h[r] EXCEPT !.pc = "types", !.projectKey = projectKey])
          /\ calls' = Call(calls, r, "GET /project/:key/statuses", projectKey)
    /\ UNCHANGED <<parseVars, viewVars, tz, listen, resp, reads>>
    /\ mixed' = Mark(r)

\* the project's issue types arrive: the handler picks the subtask type,
\* reads the clock for the date of the report and creates the subtask
TypesOk(r, d) ==
    /\ h[r].pc = "types"
    /\ \E issueTypes \in d.typeLists, today \in d.nows :
          LET subtaskTypeId == FindSubtaskTypeId(issueTypes)
              dateStr == <<getDate(today, tz), getMonth(today, tz) + 1>>
          IN  /\ replies' = Reply(replies, r, Ok(issueTypes))
              /\ reads' = [reads EXCEPT ![r] = <<today>>]
              /\ h' = Locals(h, r, [h[r] EXCEPT !.pc = "create",
                                                !.subtaskTypeId = subtaskTypeId,
                                                !.dateStr = dateStr])
              /\ calls' = Call(calls, r, "POST /issue",
                               CreatePayload(h[r].projectKey, h[r].issueKey,
                                             h[r].summary, subtaskTypeId))
    /\ UNCHANGED <<parseVars, viewVars, tz, listen, resp>>
    /\ mixed' = Mark(r)

\* the subtask is created: the handler posts the report template as a comment
CreateOk(r, d) ==
    /\ h[r].pc = "create"
    /\ \E subtaskKey \in {"SUB-1"} :
          /\ replies' = Reply(replies, r, Ok(subtaskKey))
          /\ h' = Locals(h, r, [h[r] EXCEPT !.pc = "comment", !.created = subtaskKey])
          /\ calls' = Call(calls, r, "POST /issue/:key/comment", subtaskKey)
    /\ UNCHANGED <<parseVars, viewVars, tz, listen, resp, reads>>
    /\ mixed' = Mark(r)

\* CommentCatch answering like the route's catch block
CommentCatch_Respond(rs, r, kind) ==
    [rs EXCEPT ![r] = Append(@, [status |-> 500, body |-> ErrorBody("postSubtasks", kind)])]

\* the inner catch block around the template comment: it logs and goes on
CommentCatch(rs, r, kind) == rs

\* the template comment is posted
CommentOk(r, d) ==
    /\ h[r].pc = "comment"
    /\ replies' = Reply(replies, r, Ok("upstream data"))
    /\ resp' = Respond(resp, r, 200, [success |-> TRUE, data |-> h[r].created])
    /\ h' = Locals(h, r, [h[r] EXCEPT !.pc = "done"])
    /\ UNCHANGED <<parseVars, viewVars, tz, listen, calls, reads>>
    /\ mixed' = Mark(r)

\* the post of the template comment fails
CommentFail(r, d) ==
    /\ h[r].pc = "comment"
    /\ \E kind \in d.kinds :
          /\ replies' = Reply(replies, r, Failed(kind))
          /\ resp' = Respond(CommentCatch(resp, r, kind), r, 200,
                             [success |-> TRUE, data |-> h[r].created])
    /\ h' = Locals(h, r, [h[r] EXCEPT !.pc = "done"])
    /\ UNCHANGED <<parseVars, viewVars, tz, listen, calls, reads>>
    /\ mixed' = Mark(r)

-----------------------------------------------------------------------------
\* The server.

ParserIdle ==
    /\ input = <<>>
    /\ tok = NoTokens
    /\ structured = FALSE
    /\ ppc = "ready"
    /\ result = Null

\* the port of the server when PORT is not set
DefaultPort == 3001
\* the address of the server in the README
ReadmePort == 3000
\* process.env.PORT || 3001
PORT(env) == IF env.set THEN env.value ELSE DefaultPort
\* app.listen(PORT)
Listen(env) == [PORT |-> env, port |-> PORT(env)]
\* the environments a server may start in
Environments == {NoPort, PortSet(ReadmePort), PortSet(8080)}

\* n requests arrive at a server started in one of the environments envs
ServerStart(n, envs) ==
    /\ listen \in {Listen(env) : env \in envs}
    /\ tz \in Offsets
    /\ h = [r \in 1..n |-> IdleHandler]
    /\ resp = [r \in 1..n |-> <<>>]
    /\ calls = [r \in 1..n |-> <<>>]
    /\ replies = [r \in 1..n |-> <<>>]
    /\ reads = [r \in 1..n |-> <<>>]
    /\ mixed = [r \in 1..n |-> FALSE]
    /\ ParserIdle
    /\ ViewIdle

\* a server started as the README says, with no PORT in its .env file
ServerInit(n) == ServerStart(n, {NoPort})

\* a server that handles one request
Init == ServerInit(1)

Next ==
    \/ \E r \in DOMAIN h : Receive(r, Rich)
    \/ \E r \in DOMAIN h : OuterFail(r, Rich)
    \/ \E r \in DOMAIN h : SimpleOk(r, Rich)
    \/ \E r \in DOMAIN h : MyselfOk(r, Rich)
    \/ \E r \in DOMAIN h : SearchOk(r, Rich)
    \/ \E r \in DOMAIN h : WorklogOk(r, Rich)
    \/ \E r \in DOMAIN h : WorklogFail(r, Rich)
    \/ \E r \in DOMAIN h : ParentOk(r, Rich)
    \/ \E r \in DOMAIN h : TypesOk(r, Rich)
    \/ \E r \in DOMAIN h : CreateOk(r, Rich)
    \/ \E r \in DOMAIN h : CommentOk(r, Rich)
    \/ \E r \in DOMAIN h : CommentFail(r, Rich)

Spec == Init /\ [][Next]_vars

\* a server that handles several requests at the same time
ConcInit == ServerInit(MaxRequests) /\ tz = 0

ConcNext ==
    \/ \E r \in DOMAIN h : Receive(r, Small)
    \/ \E r \in DOMAIN h : OuterFail(r, Small)
    \/ \E r \in DOMAIN h : SimpleOk(r, Small)
    \/ \E r \in DOMAIN h : MyselfOk(r, Small)
    \/ \E r \in DOMAIN h : SearchOk(r, Small)
    \/ \E r \in DOMAIN h : WorklogOk(r, Small)
    \/ \E r \in DOMAIN h : WorklogFail(r, Small)
    \/ \E r \in DOMAIN h : ParentOk(r, Small)
    \/ \E r \in DOMAIN h : TypesOk(r, Small)
    \/ \E r \in DOMAIN h : CreateOk(r, Small)
    \/ \E r \in DOMAIN h : CommentOk(r, Small)
    \/ \E r \in DOMAIN h : CommentFail(r, Small)

SpecConc == ConcInit /\ [][ConcNext]_vars

\* a server that handles one request of a worklog route, on any day of a week
ClockNext ==
    \/ \E r \in DOMAIN h : Receive(r, Calendar)
    \/ \E r \in DOMAIN h : OuterFail(r, Calendar)
    \/ \E r \in DOMAIN h : MyselfOk(r, Calendar)
    \/ \E r \in DOMAIN h : SearchOk(r, Calendar)

ClockInit == ServerStart(1, Environments)

SpecClock == ClockInit /\ [][ClockNext]_vars

-----------------------------------------------------------------------------
\* The view: the App component and the browser's local storage.

ProjectKeys == {"PRJ", "OPS", "WEB"}

\* JSON texts as sequences of tokens: the brackets, the commas and the strings
Punct(c) == [kind |-> c, str |-> ""]
Str(x) == [kind |-> "string", str |-> x]

\* JSON.stringify of a list of strings
RECURSIVE JsonItems(_)
JsonItems(list) ==
    IF list = <<>> THEN <<>>
    ELSE IF Len(list) = 1 THEN <<Str(list[1])>>
    ELSE <<Str(Head(list)), Punct(",")>> \o JsonItems(Tail(list))
JsonStringify(list) == <<Punct("[")>> \o JsonItems(list) \o <<Punct("]")>>

\* JSON.parse of such a text: the strings between the brackets, in order
RECURSIVE JsonParseItems(_)
JsonParseItems(text) ==
    IF text = <<>> \/ Head(text).kind = "]" THEN <<>>
    ELSE IF Head(text).kind = "," THEN JsonParseItems(Tail(text))
    ELSE <<Head(text).str>> \o JsonParseItems(Tail(text))
JsonParse(text) == JsonParseItems(Tail(text))

\* what the browser may hold under 'starredProjects' when the view opens
SavedLists == SeqsUpTo(ProjectKeys, MaxSaved)

\* Array.prototype.includes
Includes(list, x) == \E i \in DOMAIN list : list[i] = x
\* Array.prototype.filter(k => k !== x)
RECURSIVE Without(_, _)
Without(list, x) ==
    IF list = <<>> THEN <<>>
    ELSE IF Head(list) = x THEN Without(Tail(list), x)
    ELSE <<Head(list)>> \o Without(Tail(list), x)

\* the initial state of starredProjects
InitialStarred(saved) == IF saved # Absent THEN JsonParse(saved) ELSE <<>>

\* the effect on [starredProjects]: localStorage.setItem
StoreStarred(starredProjects) == JsonStringify(starredProjects)

\* toggleStar that adds the key whether it is starred or not
toggleStar_Push(prev, projectKey) == Append(prev, projectKey)

\* the updater of toggleStar
toggleStar(prev, projectKey) ==
    IF Includes(prev, projectKey) THEN Without(prev, projectKey)
    ELSE Append(prev, projectKey)

\* the browser before the view opens
StarInit ==
    /\ localStorage \in {Absent} \cup {JsonStringify(list) : list \in SavedLists}
    /\ app = UnmountedApp
    /\ toggled = <<>>
    /\ FetchIdle
    /\ ComponentsIdle
    /\ AppIdle
    /\ ParserIdle
    /\ ServerIdle

\* the initial state of theme: (saved as Theme) || 'light'
InitialTheme(saved) == IF saved.set /\ saved.value # "" THEN saved.value ELSE "light"

\* the effect on [theme]: localStorage.setItem('theme', theme)
StoreTheme(theme) == Entry(theme)

\* the App component mounts: its state is read from the local storage, the
\* effects store it back and the issues are fetched
Mount ==
    /\ ~app.mounted
    /\ app' = [app EXCEPT !.mounted = TRUE, !.starredProjects = InitialStarred(localStorage),
                          !.theme = InitialTheme(themeStorage)]
    /\ localStorage' = StoreStarred(InitialStarred(localStorage))
    /\ themeStorage' = StoreTheme(InitialTheme(themeStorage))
    /\ noted' = [noted EXCEPT !.themeAtMount = InitialTheme(themeStorage)]
    /\ pending' = [op |-> "issueList", then |-> "none"]
    /\ UNCHANGED <<parseVars, serverVars, componentVars, toggled, settled, panelData, screen, searches>>

\* a click on the star of a project: the state is updated, the component
\* renders and the effect stores the list
ToggleStar ==
    /\ app.mounted
    /\ Len(toggled) < MaxToggles
    /\ \E projectKey \in ProjectKeys :
          /\ app' = [app EXCEPT !.starredProjects = toggleStar(@, projectKey)]
          /\ localStorage' = StoreStarred(toggleStar(app.starredProjects, projectKey))
          /\ toggled' = Append(toggled, [key |-> projectKey, before |-> app.starredProjects])
    /\ UNCHANGED <<parseVars, serverVars, componentVars, pending, settled, panelData, screen, appVars>>

StarNext ==
    \/ Mount
    \/ ToggleStar

SpecStar == StarInit /\ [][StarNext]_vars

\* the updater of toggleTheme
toggleTheme(prev) == IF prev = "light" THEN "dark" ELSE "light"

\* what the browser may hold under 'theme' when the view opens
ThemeEntries == {NoEntry, Entry(""), Entry("light"), Entry("dark"), Entry("blue")}

\* a click on the theme button: the state is updated, the component renders
\* and the effect stores the theme
ToggleTheme ==
    /\ app.mounted
    /\ Len(noted.themes) < MaxToggles
    /\ app' = [app EXCEPT !.theme = toggleTheme(@)]
    /\ themeStorage' = StoreTheme(toggleTheme(app.theme))
    /\ noted' = [noted EXCEPT !.themes = Append(@, app.theme)]
    /\ UNCHANGED <<parseVars, serverVars, componentVars, localStorage, toggled, pending, settled, panelData,
                   screen, searches>>

\* the browser with its two entries before the view opens
PrefsInit ==
    /\ localStorage \in {Absent} \cup {JsonStringify(list) : list \in SavedLists}
    /\ themeStorage \in ThemeEntries
    /\ app = UnmountedApp
    /\ toggled = <<>>
    /\ FetchIdle
    /\ ComponentsIdle
    /\ searches = <<>>
    /\ noted = NothingNoted
    /\ ParserIdle
    /\ ServerIdle

PrefsNext ==
    \/ Mount
    \/ ToggleStar
    \/ ToggleTheme

SpecPrefs == PrefsInit /\ [][PrefsNext]_vars

-----------------------------------------------------------------------------
\* The view: the operations that fetch from the server.

\* the handlers of the issue detail panel that end with onUpdate()
PanelOps == {"logTime", "updateEstimate", "updateStoryPoints", "addComment", "createSubtask"}
ViewOps ==
    {"issueList", "issueDetail", "transitions", "weeklyTimesheet", "worklogSummary"} \cup PanelOps

\* the route an operation fetches from
RouteOf(op) ==
    CASE op = "issueList" -> "issues"
      [] op = "issueDetail" -> "issue"
      [] op = "transitions" -> "transitions"
      [] op = "logTime" -> "postWorklog"
      [] op \in {"updateEstimate", "updateStoryPoints"} -> "putIssue"
      [] op = "addComment" -> "comment"
      [] op = "createSubtask" -> "postSubtasks"
      [] op = "weeklyTimesheet" -> "daily"
      [] op = "worklogSummary" -> "worklogs"

\* the seconds of a day of the timesheet
SheetSeconds == {0, 14400, 28800, 36000, 180000}
RECURSIVE SumSeq(_)
SumSeq(q) == IF q = <<>> THEN 0 ELSE Head(q) + SumSeq(Tail(q))
\* the bodies GET /api/worklogs/daily answers with
TimesheetBody(seconds) ==
    [totalSeconds |-> SumSeq(seconds),
     weeklyProgress |-> Progress(SumSeq(seconds), 40),
     dailyData |-> [i \in DOMAIN seconds |->
                      [totalSeconds |-> seconds[i], progress |-> Progress(seconds[i], 8)]]]
TimesheetBodies == { TimesheetBody(seconds) : seconds \in SeqsOfLen(SheetSeconds, MaxDays) }

\* what a fetch comes back with: a success body, a 500 body of the route, or
\* a rejection (the server is not reached); messages are the upstream
\* errorMessages in the details of a 500 body, joined
Responses(op) ==
    { [outcome |-> "ok", body |-> b, messages |-> ""] :
        b \in (IF op = "weeklyTimesheet" THEN TimesheetBodies
               ELSE IF op = "worklogSummary" THEN {WorklogsBody("week", <<>>, 0)}
               ELSE {[data |-> "upstream data"]}) }
    \cup { [outcome |-> "errorResponse", body |-> ErrorBody(RouteOf(op), kind), messages |-> m] :
             kind \in FailureKinds, m \in {"", "upstream error messages"} }
    \cup { [outcome |-> "rejected", body |-> [message |-> "Failed to fetch"], messages |-> ""] }

\* data.details?.errorMessages?.join(', ') || data.error
ErrorText(response) ==
    IF "details" \in DOMAIN response.body /\ response.messages # ""
    THEN response.messages
    ELSE response.body.error

\* Math.min(progress, 100) without the bound
ProgressWidth_Unbounded(progress) == progress

\* Math.min(progress, 100): the width of a progress bar, in percent
ProgressWidth(progress) == IF progress < 100 THEN progress ELSE 100

\* a progress bar and the percentage shown with it
Bar(progress) == [width |-> ProgressWidth(progress), text |-> progress]

\* What the view renders. A data state that holds a 500 body makes the render
\* of the panel throw, and the view goes blank.
RenderView(a, data) ==
    IF \/ data.timesheet.set /\ "dailyData" \notin DOMAIN data.timesheet.body
       \/ data.summary.set /\ "totalSeconds" \notin DOMAIN data.summary.body
    THEN [crashed |-> TRUE, errorDialog |-> "none", weekBar |-> <<>>, dayBars |-> <<>>]
    ELSE [crashed |-> FALSE,
          errorDialog |-> IF a.error # "null" /\ a.error # "" THEN a.error ELSE "none",
          weekBar |-> IF data.timesheet.set
                      THEN <<Bar(data.timesheet.body.weeklyProgress)>> ELSE <<>>,
          dayBars |-> IF data.timesheet.set
                      THEN [i \in DOMAIN data.timesheet.body.dailyData |->
                              Bar(data.timesheet.body.dailyData[i].progress)]
                      ELSE <<>>]

\* the user starts an operation: its handler runs up to its fetch
StartFetch ==
    /\ app.mounted /\ ~screen.crashed
    /\ pending.op = "none"
    /\ Len(settled) < MaxFetches
    /\ \E op \in ViewOps :
          /\ pending' = [op |-> op, then |-> "none"]
          /\ app' = IF op = "issueList" THEN [app EXCEPT !.error = "null"] ELSE app
          /\ screen' = RenderView(IF op = "issueList" THEN [app EXCEPT !.error = "null"] ELSE app,
                              panelData)
    /\ UNCHANGED <<parseVars, serverVars, componentVars, localStorage, toggled, settled, panelData, appVars>>

\* the fetch comes back and the handler runs to its end, or to the fetch of
\* the handler it calls
Settle ==
    /\ pending.op # "none"
    /\ \E response \in Responses(pending.op) :
          LET op == pending.op
              failed == response.outcome # "ok"
              \* fetchIssues: catch (err) { setError(err.message) }
              listError == IF response.outcome = "errorResponse" THEN ErrorText(response)
                           ELSE IF response.outcome = "rejected" THEN response.body.message
                           ELSE app.error
              \* the panel's handlers call onUpdate() unless the fetch was
              \* rejected: handleIssueUpdate starts fetchIssues
              refreshes == op \in PanelOps /\ response.outcome # "rejected"
              error == IF op = "issueList" THEN listError
                       ELSE IF refreshes THEN "null"
                       ELSE app.error
              data == IF response.outcome = "rejected" THEN panelData
                      ELSE IF op = "weeklyTimesheet"
                      THEN [panelData EXCEPT !.timesheet = [set |-> TRUE, body |-> response.body]]
                      ELSE IF op = "worklogSummary"
                      THEN [panelData EXCEPT !.summary = [set |-> TRUE, body |-> response.body]]
                      ELSE panelData
          IN  /\ app' = [app EXCEPT !.error = error]
              /\ panelData' = data
              /\ screen' = RenderView([app EXCEPT !.error = error], data)
              /\ pending' = IF refreshes THEN [op |-> "issueList", then |-> "issueDetail"]
                            ELSE IF pending.then # "none" THEN [op |-> pending.then, then |-> "none"]
                            ELSE NoFetch
              /\ settled' = Append(settled, [op |-> op, outcome |-> response.outcome,
                                             error |-> error,
                                             dialog |-> RenderView([app EXCEPT !.error = error], data).errorDialog])
    /\ UNCHANGED <<parseVars, serverVars, componentVars, localStorage, toggled, appVars>>

\* the view opened in a browser without a stored list
ViewInit ==
    /\ localStorage = Absent
    /\ app = UnmountedApp
    /\ toggled = <<>>
    /\ FetchIdle
    /\ ComponentsIdle
    /\ AppIdle
    /\ ParserIdle
    /\ ServerIdle

ViewNext ==
    \/ Mount
    \/ StartFetch
    \/ Settle

SpecView == ViewInit /\ [][ViewNext]_vars


\* ---------------------------------------------------------------------
\* KanbanBoard: the columns of the board

STATUS_COLORS == [new |-> "#dfe1e6", indeterminate |-> "#deebff", done |-> "#e3fcef"]

\* the status names and the status category keys of the issues; "" stands for
\* an issue without statusCategory
StatusNames == {"To Do", "Review"}
CategoryKeys == {"", "new", "indeterminate", "done", "undefined"}
Statuses == [name : StatusNames, category : CategoryKeys]

\* the issues given to the board: issue i of the list has key i
CardLists ==
    UNION {{[i \in 1..n |-> [key |-> i, name |-> st[i].name, category |-> st[i].category]] :
              st \in [1..n -> Statuses]} : n \in 0..MaxCards}

\* order.indexOf(key), with order = ['new', 'indeterminate', 'done']
OrderIndexOf(key) ==
    CASE key = "new" -> 0
      [] key = "indeterminate" -> 1
      [] key = "done" -> 2
      [] OTHER -> -1

\* STATUS_COLORS[key] || STATUS_COLORS.new
ColorOf(key) ==
    IF key \in DOMAIN STATUS_COLORS THEN STATUS_COLORS[key] ELSE STATUS_COLORS.new

\* the body of issues.forEach: statusMap is kept as the sequence of its values
\* in insertion order
AddToStatusMap(statusMap, issue) ==
    LET key == IF issue.category # "" THEN issue.category ELSE "new"
        name == issue.name
    IN  IF \E c \in DOMAIN statusMap : statusMap[c].name = name
        THEN [c \in DOMAIN statusMap |->
                 IF statusMap[c].name = name
                 THEN [statusMap[c] EXCEPT !.issues = Append(@, issue)]
                 ELSE statusMap[c]]
        ELSE Append(statusMap,
                    [key |-> key, name |-> name, color |-> ColorOf(key), issues |-> <<issue>>])

RECURSIVE StatusMapFrom(_, _, _)
StatusMapFrom(statusMap, issues, i) ==
    IF i > Len(issues) THEN statusMap
    ELSE StatusMapFrom(AddToStatusMap(statusMap, issues[i]), issues, i + 1)

\* the comparator of the sort
CompareColumns(a, b) == OrderIndexOf(a.key) - OrderIndexOf(b.key)

\* Array.prototype.sort, a stable sort: a column goes behind the columns the
\* comparator does not put after it
InsertColumn(sorted, col) ==
    LET ahead == Cardinality({c \in DOMAIN sorted : CompareColumns(sorted[c], col) <= 0})
    IN  [c \in 1..(Len(sorted) + 1) |->
            IF c <= ahead THEN sorted[c]
            ELSE IF c = ahead + 1 THEN col
            ELSE sorted[c - 1]]

RECURSIVE SortColumns(_, _)
SortColumns(columns, n) ==
    IF n = 0 THEN <<>> ELSE InsertColumn(SortColumns(columns, n - 1), columns[n])

\* the columns memo of KanbanBoard
Columns(issues) ==
    LET statusMap == StatusMapFrom(<<>>, issues, 1)
    IN  SortColumns(statusMap, Len(statusMap))

\* the board renders with the issues it was given
BoardRenders ==
    /\ board.renders = 0
    /\ board' = [board EXCEPT !.columns = Columns(board.issues), !.renders = 1]
    /\ UNCHANGED <<parseVars, serverVars, localStorage, app, toggled, pending, settled,
                   panelData, screen, appVars, panel>>

BoardInit ==
    /\ board \in {[EmptyBoard EXCEPT !.issues = list] : list \in CardLists}
    /\ panel = ClosedPanel
    /\ localStorage = Absent
    /\ app = UnmountedApp
    /\ toggled = <<>>
    /\ pending = NoFetch /\ settled = <<>> /\ panelData = NoData /\ screen = BlankScreen
    /\ AppIdle
    /\ ParserIdle
    /\ ServerIdle

BoardNext == BoardRenders

SpecBoard == BoardInit /\ [][BoardNext]_vars


\* ---------------------------------------------------------------------
\* IssueDetailPanel: logging time

\* what the user types into the time field
TimeTexts ==
    {<<>>, <<" ">>, <<"x">>, <<"0", "m">>, <<"1", "h">>, <<" ", "3", "0", "m", " ">>}

\* !seconds, for the number or null that parseTimeToSeconds returns
Falsy(seconds) == seconds.isNull \/ seconds.value = 0

\* handleLogTime that sets the flag before it looks at the text
handleLogTime_SavingFirst(p) ==
    IF Trim(p.timeSpent) = <<>> THEN [p EXCEPT !.saving = TRUE]
    ELSE LET seconds == parseTimeToSeconds(p.timeSpent)
         IN  IF Falsy(seconds)
             THEN [p EXCEPT !.alerts = @ + 1, !.saving = FALSE]
             ELSE [p EXCEPT !.saving = TRUE, !.pc = "awaiting",
                            !.sent = Append(@, seconds.value)]

\* handleLogTime up to its await: the panel after the click on Log
handleLogTime(p) ==
    IF Trim(p.timeSpent) = <<>> THEN p
    ELSE LET seconds == parseTimeToSeconds(p.timeSpent)
         IN  IF Falsy(seconds)
             THEN [p EXCEPT !.alerts = @ + 1, !.saving = FALSE]
             ELSE [p EXCEPT !.saving = TRUE, !.pc = "awaiting",
                            !.sent = Append(@, seconds.value)]

\* handleLogTime after its await: the response came, or the fetch threw
LogTimeDone(p, thrown) ==
    IF thrown
    THEN [p EXCEPT !.saving = FALSE, !.pc = "idle"]
    ELSE [p EXCEPT !.timeSpent = <<>>, !.editing = "null", !.updates = @ + 1,
                   !.saving = FALSE, !.pc = "idle"]

\* what the panel was when Log was clicked
Called(p) ==
    [called |-> TRUE, timeSpent |-> p.timeSpent, editing |-> p.editing,
     sent |-> p.sent, updates |-> p.updates]

\* a click on + Log Time
OpenLogTime ==
    /\ panel.editing # "logTime"
    /\ panel' = [panel EXCEPT !.editing = "logTime", !.last = NotCalled]
    /\ UNCHANGED <<parseVars, serverVars, localStorage, app, toggled, pending, settled,
                   panelData, screen, appVars, board>>

\* the user changes the text of the time field
TypeTime ==
    /\ panel.editing = "logTime"
    /\ \E text \in TimeTexts :
         /\ text # panel.timeSpent
         /\ panel' = [panel EXCEPT !.timeSpent = text, !.last = NotCalled]
    /\ UNCHANGED <<parseVars, serverVars, localStorage, app, toggled, pending, settled,
                   panelData, screen, appVars, board>>

\* a click on Cancel
CancelLogTime ==
    /\ panel.editing = "logTime"
    /\ panel' = [panel EXCEPT !.editing = "null", !.last = NotCalled]
    /\ UNCHANGED <<parseVars, serverVars, localStorage, app, toggled, pending, settled,
                   panelData, screen, appVars, board>>

\* a click on Log, enabled while nothing is being saved
LogTime ==
    /\ panel.editing = "logTime" /\ ~panel.saving
    /\ panel.runs < MaxLogs
    /\ panel' = [handleLogTime(panel) EXCEPT !.runs = @ + 1, !.last = Called(panel)]
    /\ UNCHANGED <<parseVars, serverVars, localStorage, app, toggled, pending, settled,
                   panelData, screen, appVars, board>>

\* the POST of the worklog comes back, with whatever status, or throws
LogTimeSettles ==
    /\ panel.pc = "awaiting"
    /\ \E thrown \in BOOLEAN : panel' = LogTimeDone(panel, thrown)
    /\ UNCHANGED <<parseVars, serverVars, localStorage, app, toggled, pending, settled,
                   panelData, screen, appVars, board>>

PanelInit ==
    /\ panel = ClosedPanel
    /\ board = EmptyBoard
    /\ localStorage = Absent
    /\ app = UnmountedApp
    /\ toggled = <<>>
    /\ pending = NoFetch /\ settled = <<>> /\ panelData = NoData /\ screen = BlankScreen
    /\ AppIdle
    /\ ParserIdle
    /\ ServerIdle

PanelNext ==
    \/ OpenLogTime
    \/ TypeTime
    \/ CancelLogTime
    \/ LogTime
    \/ LogTimeSettles

SpecPanel == PanelInit /\ [][PanelNext]_vars

\* ---------------------------------------------------------------------
\* App: the toolbar, the issue searches and the issue detail panel

\* PRESET_FILTERS, a JQL text as its condition and its ORDER BY part
MyIssues == [where |-> "assignee = currentUser()", order |-> "updated DESC"]
CreatedThisWeek == [where |-> "created >= -7d", order |-> "created DESC"]
PRESET_FILTERS == {MyIssues, CreatedThisWeek}

\* the projects of the dropdown, '' for All Projects
ProjectChoices == {"", "OPS"}

\* fetchIssues() without an argument
NoOverride == [where |-> "", order |-> ""]

\* the JQL fetchIssues sends: the override or customJql, wrapped in the
\* selected project with its ORDER BY replaced when a project is selected
IssuesJql(selectedProject, customJql, jqlOverride) ==
    LET jql == IF jqlOverride # NoOverride THEN jqlOverride ELSE customJql
    IN  IF selectedProject # ""
        THEN [project |-> selectedProject, where |-> jql.where, order |-> "updated DESC"]
        ELSE [project |-> "", where |-> jql.where, order |-> jql.order]

\* what Jira holds: the issues a JQL finds, in its order
Found(jql) ==
    IF jql.project = "OPS"
    THEN (IF jql.where = MyIssues.where THEN <<"OPS-1">> ELSE <<>>)
    ELSE (IF jql.order = "updated DESC" THEN <<"OPS-1", "WEB-1">> ELSE <<"WEB-1", "OPS-1">>)

NoJql == [project |-> "", where |-> "", order |-> ""]

\* a fetchIssues call waiting for its response; selectedIssue is the one of
\* the render that called handleIssueUpdate, "null" for the other callers
SearchCall(id, jql, wanted, selectedIssue) ==
    [kind |-> "search", id |-> id, jql |-> jql, wanted |-> wanted, key |-> selectedIssue]

\* the timer of handleProjectChange: its fetchIssues is the one of the render
\* that handled the click, so the JQL is built from that render's state
TimerCall(id, jql, wanted) ==
    [kind |-> "timer", id |-> id, jql |-> jql, wanted |-> wanted, key |-> "null"]

\* a handleIssueClick call waiting for its response
DetailCall(id, key) ==
    [kind |-> "detail", id |-> id, jql |-> NoJql, wanted |-> "n/a", key |-> key]

Drop(s, i) == [j \in 1..(Len(s) - 1) |-> IF j < i THEN s[j] ELSE s[j + 1]]

InFlightSearches == {i \in DOMAIN searches : searches[i].kind = "search"}
InFlightDetails == {i \in DOMAIN searches : searches[i].kind = "detail"}
StartedSearches == Cardinality({i \in DOMAIN searches : searches[i].kind # "detail"})

\* the state updates at the start of fetchIssues
SearchStarted(a) == [a EXCEPT !.loading = TRUE, !.error = "null"]

\* the state updates of fetchIssues on the response, its catch and its finally
SearchDone(a, ok, jql) ==
    IF ok
    THEN [a EXCEPT !.issues = Found(jql), !.loading = FALSE]
    ELSE [a EXCEPT !.error = "Failed to fetch issues", !.issues = <<>>, !.loading = FALSE]

\* the click on the Timesheet button that forgets the summary
ClickTimesheet_KeepsSummary(a) == [a EXCEPT !.showTimesheet = ~@]

\* the click handler of the Timesheet button
ClickTimesheet(a) ==
    [a EXCEPT !.showTimesheet = ~@,
              !.showWorklogSummary = IF a.showWorklogSummary THEN FALSE ELSE @]

\* the click handler of the Worklog Summary button
ClickSummary(a) ==
    [a EXCEPT !.showWorklogSummary = ~@,
              !.showTimesheet = IF a.showTimesheet THEN FALSE ELSE @]

\* the side panels main renders, in the order of the JSX
SidePanels(a) ==
    (IF a.showTimesheet /\ a.selectedIssue = "null" THEN <<"WeeklyTimesheet">> ELSE <<>>)
    \o (IF a.showWorklogSummary /\ a.selectedIssue = "null" /\ ~a.showTimesheet
        THEN <<"WorklogSummary">> ELSE <<>>)
    \o (IF a.selectedIssue # "null" THEN <<"IssueDetailPanel">> ELSE <<>>)

\* one more search is started
NoteSearch(n, id) ==
    [n EXCEPT !.last = id, !.lastResult = <<>>, !.overlapped = @ \/ InFlightSearches # {}]

CanStart == noted.started < MaxSearches

\* a click on the Timesheet button
Timesheet ==
    /\ app' = ClickTimesheet(app)
    /\ UNCHANGED <<parseVars, serverVars, componentVars, localStorage, toggled, pending, settled, panelData,
                   screen, appVars>>

\* a click on the Worklog Summary button
Summary ==
    /\ app' = ClickSummary(app)
    /\ UNCHANGED <<parseVars, serverVars, componentVars, localStorage, toggled, pending, settled, panelData,
                   screen, appVars>>

\* handlePresetClick(jql)
PresetClick ==
    /\ CanStart
    /\ \E jql \in PRESET_FILTERS :
         /\ app' = [SearchStarted(app) EXCEPT !.customJql = jql]
         /\ searches' = Append(searches,
               SearchCall(noted.started + 1, IssuesJql(app.selectedProject, app.customJql, jql),
                          "n/a", "null"))
    /\ noted' = [NoteSearch(noted, noted.started + 1) EXCEPT !.started = @ + 1]
    /\ UNCHANGED <<parseVars, serverVars, componentVars, localStorage, toggled, pending, settled, panelData,
                   screen, themeStorage>>

\* fetchIssues() of the render on the screen: Enter in the JQL field, a status
\* changed on the board, or the Refresh and Search buttons when not loading
SearchNow ==
    /\ CanStart
    /\ app' = SearchStarted(app)
    /\ searches' = Append(searches,
          SearchCall(noted.started + 1, IssuesJql(app.selectedProject, app.customJql, NoOverride),
                     "n/a", "null"))
    /\ noted' = [NoteSearch(noted, noted.started + 1) EXCEPT !.started = @ + 1]
    /\ UNCHANGED <<parseVars, serverVars, componentVars, localStorage, toggled, pending, settled, panelData,
                   screen, themeStorage>>

\* handleProjectChange(projectKey): the state is set and the timer holds the
\* fetchIssues of this render
ProjectChange ==
    /\ CanStart
    /\ \E projectKey \in ProjectChoices :
         /\ app' = [app EXCEPT !.selectedProject = projectKey]
         /\ searches' = Append(searches,
               TimerCall(noted.started + 1, IssuesJql(app.selectedProject, app.customJql, NoOverride),
                         projectKey))
    /\ noted' = [noted EXCEPT !.started = @ + 1]
    /\ UNCHANGED <<parseVars, serverVars, componentVars, localStorage, toggled, pending, settled, panelData,
                   screen, themeStorage>>

\* the timer of handleProjectChange fires: fetchIssues() of the old render
TimerFires ==
    /\ \E i \in DOMAIN searches :
         /\ searches[i].kind = "timer"
         /\ \A j \in 1..(i - 1) : searches[j].kind # "timer"
         /\ searches' = Append(Drop(searches, i),
               SearchCall(searches[i].id, searches[i].jql, searches[i].wanted, "null"))
         /\ noted' = NoteSearch(noted, searches[i].id)
    /\ app' = SearchStarted(app)
    /\ UNCHANGED <<parseVars, serverVars, componentVars, localStorage, toggled, pending, settled, panelData,
                   screen, themeStorage>>

\* handleIssueUpdate of the detail panel: fetchIssues(), and after it the
\* detail of the issue this render shows
IssueUpdate ==
    /\ CanStart
    /\ noted.details < MaxDetails
    /\ app.selectedIssue # "null" /\ ~app.detailLoading
    /\ app' = SearchStarted(app)
    /\ searches' = Append(searches,
          SearchCall(noted.started + 1, IssuesJql(app.selectedProject, app.customJql, NoOverride),
                     "n/a", app.selectedIssue))
    /\ noted' = [NoteSearch(noted, noted.started + 1) EXCEPT !.started = @ + 1, !.details = @ + 1]
    /\ UNCHANGED <<parseVars, serverVars, componentVars, localStorage, toggled, pending, settled, panelData,
                   screen, themeStorage>>

\* the response of a search arrives, or its fetch fails; the searches come
\* back in any order. handleIssueUpdate then goes on with handleIssueClick
SearchSettles ==
    \E i \in InFlightSearches, ok \in BOOLEAN :
        LET call == searches[i]
            done == SearchDone(app, ok, call.jql)
        IN  /\ app' = IF call.key # "null" THEN [done EXCEPT !.detailLoading = TRUE] ELSE done
            /\ searches' = IF call.key # "null"
                           THEN Append(Drop(searches, i), DetailCall(call.id, call.key))
                           ELSE Drop(searches, i)
            /\ noted' = IF call.id = noted.last
                        THEN [noted EXCEPT !.lastResult = done.issues]
                        ELSE noted
            /\ UNCHANGED <<parseVars, serverVars, componentVars, localStorage, toggled, pending, settled,
                           panelData, screen, themeStorage>>

\* handleIssueClick(issueKey): a click on a card of the board
IssueClick ==
    /\ noted.details < MaxDetails
    /\ ~app.loading
    /\ \E i \in DOMAIN app.issues :
         searches' = Append(searches, DetailCall(noted.details + 1, app.issues[i]))
    /\ app' = [app EXCEPT !.detailLoading = TRUE]
    /\ noted' = [noted EXCEPT !.details = @ + 1, !.closed = FALSE]
    /\ UNCHANGED <<parseVars, serverVars, componentVars, localStorage, toggled, pending, settled, panelData,
                   screen, themeStorage>>

\* the response of a detail fetch arrives, or the fetch fails
DetailSettles ==
    \E i \in InFlightDetails, ok \in BOOLEAN :
        /\ app' = IF ok
                  THEN [app EXCEPT !.selectedIssue = searches[i].key, !.detailLoading = FALSE]
                  ELSE [app EXCEPT !.detailLoading = FALSE]
        /\ searches' = Drop(searches, i)
        /\ UNCHANGED <<parseVars, serverVars, componentVars, localStorage, toggled, pending, settled,
                       panelData, screen, themeStorage, noted>>

\* handleCloseDetail: the close button of the detail panel
CloseDetail ==
    /\ app.selectedIssue # "null"
    /\ app' = [app EXCEPT !.selectedIssue = "null"]
    /\ noted' = [noted EXCEPT !.closed = TRUE]
    /\ UNCHANGED <<parseVars, serverVars, componentVars, localStorage, toggled, pending, settled, panelData,
                   screen, themeStorage, searches>>

\* App after it mounted: the fetchIssues of the mount effect is waiting
AppInit ==
    /\ localStorage = StoreStarred(<<>>)
    /\ themeStorage = StoreTheme("light")
    /\ app = [SearchStarted(UnmountedApp) EXCEPT !.mounted = TRUE]
    /\ searches = <<SearchCall(1, IssuesJql("", MyIssues, NoOverride), "n/a", "null")>>
    /\ noted = [NothingNoted EXCEPT !.started = 1, !.last = 1]
    /\ toggled = <<>>
    /\ FetchIdle
    /\ ComponentsIdle
    /\ ParserIdle
    /\ ServerIdle

AppNext ==
    \/ Timesheet
    \/ Summary
    \/ PresetClick
    \/ SearchNow
    \/ ProjectChange
    \/ TimerFires
    \/ IssueUpdate
    \/ SearchSettles
    \/ IssueClick
    \/ DetailSettles
    \/ CloseDetail

SpecApp == AppInit /\ [][AppNext]_vars

-----------------------------------------------------------------------------
\* Properties of the server.

Requests == DOMAIN h
Done(r) == h[r].pc = "done"
\* request r was answered once, with a success body
Succeeded(r) == Done(r) /\ Len(resp[r]) = 1 /\ resp[r][1].status = 200
Body(r) == resp[r][1].body

WorklogEp == "GET /issue/:key/worklog"
\* the upstream calls made inside an inner try block
Swallowed(route, ep) ==
    \/ route \in {"daily", "worklogs"} /\ ep = WorklogEp
    \/ route = "postSubtasks" /\ ep = "POST /issue/:key/comment"
OuterFailure(r) ==
    \E i \in DOMAIN replies[r] : ~replies[r][i].ok /\ ~Swallowed(h[r].route, calls[r][i].ep)
InnerFailure(r) ==
    \E i \in DOMAIN replies[r] : ~replies[r][i].ok /\ Swallowed(h[r].route, calls[r][i].ep)

\* the Monday of the week of a day (day 0 is a Thursday)
WeekMonday(day) == day - ((day + 3) % 7)
\* the three readings of the clock are one instant
SteadyClock(r) == reads[r][1] = reads[r][2] /\ reads[r][2] = reads[r][3]

\* the current user's worklogs that started on local day D, among those the
\* first i upstream calls of the request fetched, in the order fetched
RECURSIVE UserWorklogsOn(_, _, _, _, _)
UserWorklogsOn(cs, ps, i, D, off) ==
    IF i = 0 THEN <<>>
    ELSE UserWorklogsOn(cs, ps, i - 1, D, off) \o
         (IF cs[i].ep = WorklogEp /\ ps[i].ok
          THEN LET ws == ps[i].data
                   keep == {k \in DOMAIN ws : ws[k].author = Me /\ LocalDay(ws[k].started, off) = D}
                   RECURSIVE Pick(_)
                   Pick(k) == IF k > Len(ws) THEN <<>>
                              ELSE (IF k \in keep
                                    THEN <<[started |-> ws[k].started,
                                            timeSpentSeconds |-> ws[k].timeSpentSeconds]>>
                                    ELSE <<>>) \o Pick(k + 1)
               IN  Pick(1)
          ELSE <<>>)
Listed(entries) ==
    [k \in DOMAIN entries |-> [started |-> entries[k].started,
                               timeSpentSeconds |-> entries[k].timeSpentSeconds]]

\* C3: in GET /api/worklogs/daily, whatever the server's timezone, every
\* worklog of the current user that started inside the current local
\* Monday-to-Sunday week is listed in exactly one bucket, the bucket of the
\* local calendar day on which it started.
C3_LocalDayBuckets ==
    \A r \in Requests :
        (h[r].route = "daily" /\ Succeeded(r) /\ SteadyClock(r)) =>
            LET monday == WeekMonday(LocalDay(reads[r][1], tz))
                days == Body(r).dailyData
            IN  /\ \A D \in monday..(monday + 6) :
                      UserWorklogsOn(calls[r], replies[r], Len(replies[r]), D, tz) # <<>> =>
                          \E i \in DOMAIN days :
                              /\ days[i].date = D
                              /\ Listed(days[i].worklogs)
                                   = UserWorklogsOn(calls[r], replies[r], Len(replies[r]), D, tz)
                /\ \A i \in DOMAIN days : \A k \in DOMAIN days[i].worklogs :
                      LocalDay(days[i].worklogs[k].started, tz) = days[i].date

RECURSIVE SumDays(_)
SumDays(days) == IF days = <<>> THEN 0 ELSE Head(days).totalSeconds + SumDays(Tail(days))

\* C4: in every response of GET /api/worklogs/daily, each day's totalSeconds
\* is the sum of the timeSpentSeconds of the worklogs listed under that day,
\* and the top-level totalSeconds is the sum of the seven days' totalSeconds.
C4_TotalsAreSums ==
    \A r \in Requests :
        (h[r].route = "daily" /\ Succeeded(r)) =>
            /\ Len(Body(r).dailyData) = 7
            /\ \A i \in DOMAIN Body(r).dailyData :
                  Body(r).dailyData[i].totalSeconds = SumSeconds(Body(r).dailyData[i].worklogs)
            /\ Body(r).totalSeconds = SumDays(Body(r).dailyData)

C4_Witness ==
    \E r \in Requests :
        /\ h[r].route = "daily" /\ Succeeded(r)
        /\ \E i \in DOMAIN Body(r).dailyData :
              /\ Len(Body(r).dailyData[i].worklogs) = 2
              /\ Body(r).dailyData[i].worklogs[1].issueKey # Body(r).dailyData[i].worklogs[2].issueKey
              /\ Body(r).dailyData[i].totalSeconds = 72000
        /\ Body(r).totalSeconds = 72000

\* p is x = seconds * 100 / (goalHours * 3600) rounded to the nearest integer,
\* halves up: p <= x + 1/2 < p + 1
IsRounded(p, seconds, goalHours) ==
    LET g == goalHours * 3600
    IN  /\ 2 * p * g <= 2 * 100 * seconds + g
        /\ 2 * 100 * seconds + g < 2 * (p + 1) * g

Keys(body) == DOMAIN body

\* C6 as claimed: for every route, when a call to the upstream API fails the
\* response has status 500 and a body with an error string.
C6_EveryFailureIs500WithError ==
    \A r \in Requests :
        (Done(r) /\ (OuterFailure(r) \/ InnerFailure(r))) =>
            /\ Len(resp[r]) = 1
            /\ resp[r][1].status = 500
            /\ "error" \in Keys(Body(r))

\* C6, amended: when an upstream call of a route's outer try block fails, the
\* response has status 500; on every route but /api/health its body holds the
\* route's error string and nothing else but details, which is there only on
\* the routes that pass it on and only when upstream replied with a payload;
\* the body of /api/health holds status, message and details and no error.
C6_OuterFailureIs500 ==
    \A r \in Requests :
        (Done(r) /\ OuterFailure(r)) =>
            /\ Len(resp[r]) = 1
            /\ resp[r][1].status = 500
            /\ h[r].route # "health" =>
                  /\ "error" \in Keys(Body(r))
                  /\ Body(r).error = ErrorMessage(h[r].route)
                  /\ Keys(Body(r)) \subseteq {"error", "details"}
                  /\ "details" \in Keys(Body(r)) =>
                        /\ h[r].route \in DetailRoutes
                        /\ replies[r][Len(replies[r])].kind = "http"
            /\ h[r].route = "health" =>
                  /\ Keys(Body(r)) = {"status", "message", "details"}
                  /\ Body(r).status = "error"

C6_Witness ==
    \E r \in Requests :
        /\ Done(r) /\ OuterFailure(r)
        /\ h[r].route = "daily"
        /\ Len(replies[r]) = 2
        /\ resp[r] = <<[status |-> 500,
                        body |-> [error |-> "Failed to fetch daily worklogs",
                                  details |-> "upstream payload"]]>>

\* C7 as claimed: no partial success: if any upstream call made while
\* handling a request fails, the request is answered with the 500 error
\* response and never with a success body.
C7_NoPartialSuccess ==
    \A r \in Requests :
        (Done(r) /\ (OuterFailure(r) \/ InnerFailure(r))) =>
            \A i \in DOMAIN resp[r] : resp[r][i].status = 500

\* C7, amended: a request is answered 500 exactly when an upstream call of
\* its route's outer try block failed. A failed fetch of one issue's worklogs
\* and a failed post of the template comment are logged and passed over: the
\* request is then answered with a success body, which for the subtask route
\* carries the created subtask.
C7_OnlyOuterFailureIs500 ==
    \A r \in Requests :
        Done(r) =>
            /\ Len(resp[r]) = 1
            /\ resp[r][1].status = IF OuterFailure(r) THEN 500 ELSE 200
            /\ (h[r].route = "postSubtasks" /\ ~OuterFailure(r)) =>
                  Body(r) = [success |-> TRUE, data |-> replies[r][3].data]

C7_Witness ==
    \E r \in Requests :
        /\ Done(r) /\ InnerFailure(r) /\ ~OuterFailure(r)
        /\ h[r].route = "daily"
        /\ Len(h[r].issues) = 2
        /\ ~replies[r][3].ok /\ replies[r][4].ok
        /\ Succeeded(r)
        /\ Body(r).totalSeconds = 36000

\* C8: every request gets exactly one response on every path: none before
\* its handler has finished, one once it has, never two.
C8_ExactlyOneResponse ==
    \A r \in Requests : Len(resp[r]) = IF Done(r) THEN 1 ELSE 0

C8_Witness ==
    \E r \in Requests :
        /\ Done(r) /\ InnerFailure(r)
        /\ h[r].route = "postSubtasks"
        /\ Len(replies[r]) = 4
        /\ Len(resp[r]) = 1

\* the first entry of the issue-type list that is a subtask type, 0 if none
IsSubtaskType(t) == t.name = "Subtask" \/ t.subtask = TRUE
FirstSubtaskType(types) ==
    IF \E i \in DOMAIN types : IsSubtaskType(types[i])
    THEN CHOOSE i \in DOMAIN types :
            IsSubtaskType(types[i]) /\ \A j \in 1..(i - 1) : ~IsSubtaskType(types[j])
    ELSE 0

\* C10: the subtask is created with the id of the first entry of the
\* project's issue-type list whose name is 'Subtask' or whose subtask flag is
\* true, and with '10003' when there is none; it has the request's issue key
\* as parent and the parent's project key as project.
C10_SubtaskType ==
    \A r \in Requests :
        (h[r].route = "postSubtasks" /\ Len(calls[r]) >= 3) =>
            LET types == replies[r][2].data
                first == FirstSubtaskType(types)
                fields == calls[r][3].arg
            IN  /\ calls[r][3].ep = "POST /issue"
                /\ fields.issuetype = IF first = 0 THEN "10003" ELSE types[first].id
                /\ fields.parent = h[r].issueKey
                /\ fields.project = replies[r][1].data

C10_Witness ==
    \E r \in Requests :
        /\ h[r].route = "postSubtasks" /\ Succeeded(r)
        /\ replies[r][2].data = <<IssueType("10005", "Sub-tarea", TRUE),
                                  IssueType("10007", "Subtask", TRUE)>>
        /\ calls[r][3].arg = [project |-> "OPS", parent |-> "PRJ-1",
                              summary |-> "Daily report", issuetype |-> "10005"]

\* The response to request r computed from what the environment handed to
\* its handler alone: the readings of the clock and the upstream replies.
RECURSIVE DailyAlone(_, _, _, _, _, _)
DailyAlone(issues, ps, k, accountId, startDate, endDate) ==
    IF k = 0 THEN [dailyTotals |-> InitDailyTotals(startDate, tz), totalSeconds |-> 0]
    ELSE LET acc == DailyAlone(issues, ps, k - 1, accountId, startDate, endDate)
         IN  IF ps[2 + k].ok
             THEN AddDailyAll(acc, issues[k], ps[2 + k].data, accountId, startDate, endDate)
             ELSE acc
RECURSIVE WorklogsAlone(_, _, _, _, _, _)
WorklogsAlone(issues, ps, k, accountId, startDate, endDate) ==
    IF k = 0 THEN [worklogsByIssue |-> <<>>, totalSeconds |-> 0]
    ELSE LET acc == WorklogsAlone(issues, ps, k - 1, accountId, startDate, endDate)
         IN  IF ps[2 + k].ok
             THEN AddIssue(acc, issues[k], ps[2 + k].data, accountId, startDate, endDate)
             ELSE acc

Alone(r) ==
    LET route == h[r].route
        ps == replies[r]
        rd == reads[r]
    IN  IF OuterFailure(r)
        THEN [status |-> 500, body |-> ErrorBody(route, ps[Len(ps)].kind)]
        ELSE IF route = "daily"
        THEN LET startDate == WeekStart(rd[1], rd[2], tz)
                 endDate == WeekEnd(rd[1], rd[3], tz)
                 acc == DailyAlone(ps[2].data, ps, Len(ps[2].data), ps[1].data, startDate, endDate)
             IN  [status |-> 200,
                  body |-> DailyBody(acc.dailyTotals, acc.totalSeconds, startDate, endDate)]
        ELSE IF route = "worklogs"
        THEN LET period == PeriodOf(h[r].query)
                 startDate == PeriodStart(period, rd[1], rd[2], tz)
                 endDate == PeriodEnd(period, rd[1], rd[3], tz)
                 acc == WorklogsAlone(ps[2].data, ps, Len(ps[2].data), ps[1].data, startDate, endDate)
             IN  [status |-> 200,
                  body |-> WorklogsBody(period, acc.worklogsByIssue, acc.totalSeconds)]
        ELSE IF route = "postSubtasks"
        THEN [status |-> 200, body |-> [success |-> TRUE, data |-> ps[3].data]]
        ELSE [status |-> 200, body |-> SuccessBody(route)]

\* C9: the server keeps no state shared between requests: when requests are
\* handled with their upstream calls interleaved in any order, each response
\* is the response the request gets when handled alone with the same upstream
\* replies and the same clock.
C9_ResponseAsAlone ==
    \A r \in Requests : Done(r) => resp[r] = <<Alone(r)>>

C9_Witness ==
    /\ Done(1) /\ Done(2)
    /\ mixed[1] /\ mixed[2]
    /\ h[1].route = "daily" /\ h[2].route = "worklogs"
    /\ Succeeded(1) /\ Succeeded(2)
    /\ replies[1][3].ok /\ replies[1][3].data # <<>> /\ ~replies[1][4].ok
    /\ replies[2][3].ok /\ replies[2][3].data = <<>>
    /\ replies[2][4].ok /\ replies[2][4].data # <<>>
    /\ Body(1).totalSeconds = 36000
    /\ Body(2).totalSeconds = 36000

\* The windows of the two worklog routes.

\* request r has read the clock and computed its window
HasWindow(r) == Len(reads[r]) = 3 /\ h[r].route \in {"daily", "worklogs"}
WeekRequest(r) ==
    HasWindow(r) /\ (h[r].route = "daily" \/ h[r].period = "week")
\* the Monday of the local week of instant t
MondayOf(t, off) == LocalDay(t, off) - ((getDay(t, off) + 6) % 7)
\* the window [startDate, endDate] is the local week of instant t
IsWeekOf(startDate, endDate, t, off) ==
    /\ startDate = Hour(MondayOf(t, off), 0) - off
    /\ endDate = Hour(MondayOf(t, off) + 6, HoursPerDay - 1) - off

\* C11: for every weekday of the current instant, the week window of the
\* 'week' period of GET /api/worklogs and of GET /api/worklogs/daily starts on
\* Monday 00:00 and ends on Sunday 23:59:59.999 of the same local week,
\* contains the current instant and spans 7 calendar days.
C11_WeekWindow ==
    \A r \in Requests :
        WeekRequest(r) =>
            /\ getDay(h[r].startDate, tz) = 1 /\ LocalHour(h[r].startDate, tz) = 0
            /\ getDay(h[r].endDate, tz) = 0 /\ LocalHour(h[r].endDate, tz) = HoursPerDay - 1
            /\ LocalDay(h[r].endDate, tz) - LocalDay(h[r].startDate, tz) = 6
            /\ h[r].startDate <= reads[r][1] /\ reads[r][1] <= h[r].endDate

\* the same with one reading of the clock for the three Dates of the handler
C11_WeekWindowSteady ==
    \A r \in Requests :
        WeekRequest(r) /\ SteadyClock(r) =>
            IsWeekOf(h[r].startDate, h[r].endDate, reads[r][1], tz)

C11_SteadyWitness ==
    \E r \in Requests :
        /\ WeekRequest(r) /\ SteadyClock(r)
        /\ getDay(reads[r][1], tz) = 0
        /\ getMonth(h[r].startDate, tz) # getMonth(h[r].endDate, tz)

\* the first and the last day of the month of local day D
FirstOfMonth(D) == MonthStart(MonthOfDay(D))
LastOfMonth(D) == MonthStart(MonthOfDay(D)) + MonthLengths[MonthOfDay(D) + 1] - 1
\* the local days of the readings of the clock of request r
Today(r) == { LocalDay(reads[r][i], tz) : i \in DOMAIN reads[r] }

\* the window of a period other than 'week', with now the first reading of
\* the clock and today the day of any of the readings
PeriodWindowOk(r) ==
    LET now == reads[r][1]
    IN  IF h[r].period = "month"
        THEN /\ h[r].startDate = Hour(FirstOfMonth(LocalDay(now, tz)), 0) - tz
             /\ h[r].endDate = Hour(LastOfMonth(LocalDay(now, tz)), HoursPerDay - 1) - tz
        ELSE /\ LocalDay(h[r].startDate, tz) = LocalDay(now, tz) - 365
             /\ \E D \in Today(r) : h[r].endDate = Hour(D, HoursPerDay - 1) - tz
PeriodRequest(r) ==
    HasWindow(r) /\ h[r].route = "worklogs" /\ h[r].period # "week"

\* C12: in GET /api/worklogs, period 'month' selects the window from 00:00 on
\* the 1st of the current month to 23:59:59.999 on its last day, every other
\* period but 'week' selects the window from 365 days before now to the end
\* of today, and the response echoes the period received.
C12_PeriodWindow ==
    \A r \in Requests :
        /\ PeriodRequest(r) => PeriodWindowOk(r)
        /\ (Succeeded(r) /\ h[r].route = "worklogs" /\ h[r].query # "absent")
              => Body(r).period = h[r].query

\* the same with one reading of the clock for the three Dates of the handler
C12_PeriodWindowSteady ==
    \A r \in Requests :
        /\ (PeriodRequest(r) /\ SteadyClock(r)) =>
              /\ PeriodWindowOk(r)
              /\ h[r].period # "month" => h[r].startDate = reads[r][1] - 365 * HoursPerDay
        /\ (Succeeded(r) /\ h[r].route = "worklogs" /\ h[r].query # "absent")
              => Body(r).period = h[r].query

C12_SteadyWitness ==
    \E r \in Requests :
        /\ PeriodRequest(r) /\ SteadyClock(r) /\ Succeeded(r)
        /\ h[r].query = "year"
        /\ getMonth(reads[r][1], tz) = 1

\* The starred projects.

NoDuplicates(list) == \A i, j \in DOMAIN list : list[i] = list[j] => i = j
\* the starred list the view opened with, and the list after the i-th toggle
StarredAtMount == IF toggled = <<>> THEN app.starredProjects ELSE toggled[1].before
StarredAfter(i) == IF i < Len(toggled) THEN toggled[i + 1].before ELSE app.starredProjects

\* C13: after any sequence of toggleStar operations the 'starredProjects'
\* entry of the local storage is the current starred list, the list holds no
\* project key twice if it started without duplicates, and toggling the same
\* key twice leaves its membership as it was.
C13_StarredStored ==
    app.mounted =>
        /\ localStorage = JsonStringify(app.starredProjects)
        /\ JsonParse(localStorage) = app.starredProjects
        /\ NoDuplicates(StarredAtMount) => NoDuplicates(app.starredProjects)
        /\ \A i \in DOMAIN toggled :
              (i < Len(toggled) /\ toggled[i].key = toggled[i + 1].key)
                => (Includes(StarredAfter(i + 1), toggled[i].key)
                      <=> Includes(toggled[i].before, toggled[i].key))

C13_Witness ==
    /\ app.mounted /\ Len(toggled) = MaxToggles
    /\ toggled[1].before = <<"PRJ", "OPS">>
    /\ toggled[1].key = "PRJ" /\ toggled[2].key = "PRJ" /\ toggled[3].key = "WEB"
    /\ app.starredProjects = <<"OPS", "PRJ", "WEB">>

\* The fetches of the view.

FailedFetch(e) == e.outcome # "ok"

\* C14: for every operation of the view that fetches from the server, a
\* failed fetch or an error response leaves a message in the error state,
\* and the message is rendered.
C14_FailureShown ==
    \A i \in DOMAIN settled :
        FailedFetch(settled[i]) =>
            /\ settled[i].error \notin {"null", ""}
            /\ settled[i].dialog = settled[i].error

\* the same for the fetch of the issue list alone
C14_IssueListFailureShown ==
    \A i \in DOMAIN settled :
        (FailedFetch(settled[i]) /\ settled[i].op = "issueList") =>
            /\ settled[i].error \notin {"null", ""}
            /\ settled[i].dialog = settled[i].error

C14_IssueListWitness ==
    \E i \in DOMAIN settled :
        /\ settled[i].op = "issueList" /\ settled[i].outcome = "errorResponse"
        /\ settled[i].error = "upstream error messages"
        /\ screen.errorDialog = "upstream error messages"

\* The upstream calls of a request.

\* C15: no upstream call is retried: while one request is handled each
\* upstream call, one per endpoint and one per issue key for the worklog
\* fetches, is attempted at most once, whether it succeeds or fails.
C15_NoRetry ==
    \A r \in Requests :
        /\ Len(calls[r]) <= Len(replies[r]) + 1
        /\ \A i, j \in DOMAIN calls[r] :
              (i < j /\ calls[r][i].ep = calls[r][j].ep)
                => (calls[r][i].ep = WorklogEp /\ calls[r][i].arg # calls[r][j].arg)

C15_Witness ==
    \E r \in Requests :
        /\ Done(r) /\ Succeeded(r)
        /\ Len(calls[r]) = 4
        /\ calls[r][3].ep = WorklogEp /\ ~replies[r][3].ok
        /\ calls[r][4].ep = WorklogEp /\ replies[r][4].ok

\* The server's port.

\* C16: when no PORT is configured the server listens on port 3000, the
\* address the README gives for the server.
C16_ListensOnReadmePort ==
    ~listen.PORT.set => listen.port = ReadmePort

\* the port of the server is the PORT of its environment, or 3001
C16_ListensOnDefaultPort ==
    listen.port = (IF listen.PORT.set THEN listen.PORT.value ELSE DefaultPort)

\* The days of the weekly timesheet.

\* the name of the weekday of the date (a day since 1970-01-01, a Thursday)
DayNameOf(date) == dayNames[((date + 4) % 7) + 1]
\* the body lists the seven days from Monday to Sunday of the local week of
\* instant t, each under its own name
ListsWeekOf(body, t, off) ==
    /\ Len(body.dailyData) = 7
    /\ \A i \in DOMAIN body.dailyData :
          /\ body.dailyData[i].date = MondayOf(t, off) + (i - 1)
          /\ body.dailyData[i].dayName = DayNameOf(body.dailyData[i].date)
    /\ body.weekStart = MondayOf(t, off)
    /\ body.weekEnd = MondayOf(t, off) + 6
DailyAnswered(r) == Succeeded(r) /\ h[r].route = "daily" /\ SteadyClock(r)

\* C17: for every timezone offset of the server, dailyData of GET
\* /api/worklogs/daily has seven entries with consecutive dates from the
\* Monday to the Sunday of the current local week, each entry's dayName is
\* the weekday name of its own date, and weekStart and weekEnd are the dates
\* of that Monday and that Sunday.
C17_SevenLocalDays ==
    \A r \in Requests :
        DailyAnswered(r) => ListsWeekOf(Body(r), reads[r][1], tz)

\* the same for a server whose local time is UTC
C17_SevenDaysAtUTC ==
    \A r \in Requests :
        (DailyAnswered(r) /\ tz = 0) => ListsWeekOf(Body(r), reads[r][1], tz)

C17_WitnessAtUTC ==
    \E r \in Requests :
        /\ DailyAnswered(r) /\ tz = 0
        /\ getDay(reads[r][1], tz) = 0
        /\ Body(r).dailyData[7].dayName = "Domingo"

\* The worklogs by issue.

\* the worklogs of the i-th upstream reply of request r that are the current
\* user's and start inside the window of the request, as the response lists them
OwnInWindow(r, i) ==
    LET own == SelectSeq(replies[r][i].data,
                         LAMBDA w : /\ w.author = Me
                                    /\ h[r].startDate <= w.started
                                    /\ w.started <= h[r].endDate)
    IN  [k \in DOMAIN own |-> [timeSpentSeconds |-> own[k].timeSpentSeconds,
                               started |-> own[k].started]]
\* the i-th upstream call of request r fetched the worklogs of an issue
Fetched(r, i) == calls[r][i].ep = WorklogEp /\ i <= Len(replies[r]) /\ replies[r][i].ok
RECURSIVE SumTotals(_)
SumTotals(items) == IF items = <<>> THEN 0 ELSE Head(items).totalSeconds + SumTotals(Tail(items))
WorklogsAnswered(r) == Succeeded(r) /\ h[r].route = "worklogs"

SubtaskCalls ==
    <<"GET /issue/:key", "GET /project/:key/statuses", "POST /issue", "POST /issue/:key/comment">>
SubtaskRequest(r) == h[r].route = "postSubtasks"

\* C19: in POST /api/issues/:issueKey/subtasks the upstream calls are, in
\* order, the parent issue, the project's issue types, the creation of the
\* subtask and the template comment on the created subtask's key; when one of
\* the first three fails no later call is made and the response is 500, so no
\* template comment is posted without a created subtask.
C19_SubtaskCallOrder ==
    \A r \in Requests :
        SubtaskRequest(r) =>
            /\ Len(calls[r]) <= Len(SubtaskCalls)
            /\ \A i \in DOMAIN calls[r] : calls[r][i].ep = SubtaskCalls[i]
            /\ \A i \in DOMAIN replies[r] :
                  (i <= 3 /\ ~replies[r][i].ok)
                    => /\ Len(calls[r]) = i
                       /\ Done(r) /\ Len(resp[r]) = 1 /\ resp[r][1].status = 500
            /\ Len(calls[r]) = Len(SubtaskCalls)
                  => /\ replies[r][3].ok
                     /\ calls[r][4].arg = replies[r][3].data

C19_Witness ==
    \E r \in Requests :
        /\ SubtaskRequest(r) /\ Done(r)
        /\ Len(calls[r]) = 3
        /\ replies[r][1].ok /\ replies[r][2].ok /\ ~replies[r][3].ok
        /\ resp[r][1].status = 500

\* The progress bars of the weekly timesheet.

\* the progress values of the timesheet the view holds: the week's, then the days'
SheetProgress ==
    <<panelData.timesheet.body.weeklyProgress>>
      \o [i \in DOMAIN panelData.timesheet.body.dailyData |->
             panelData.timesheet.body.dailyData[i].progress]
ScreenBars == screen.weekBar \o screen.dayBars
SheetShown ==
    /\ ~screen.crashed
    /\ panelData.timesheet.set

\* C20: in WeeklyTimesheet the width of a progress bar is min(progress, 100)
\* percent for every progress value, and the percentage shown with the bar is
\* the progress value received from the server, not clamped.
C20_BarWidthClamped ==
    SheetShown =>
        /\ Len(ScreenBars) = Len(SheetProgress)
        /\ \A i \in DOMAIN ScreenBars :
              /\ ScreenBars[i].text = SheetProgress[i]
              /\ ScreenBars[i].width <= 100
              /\ ScreenBars[i].width <= SheetProgress[i]
              /\ ScreenBars[i].width = 100 \/ ScreenBars[i].width = SheetProgress[i]
              /\ SheetProgress[i] = Progress(IF i = 1 THEN panelData.timesheet.body.totalSeconds
                                              ELSE panelData.timesheet.body.dailyData[i - 1].totalSeconds,
                                             IF i = 1 THEN 40 ELSE 8)

C20_Witness ==
    /\ SheetShown
    /\ screen.weekBar = <<[width |-> 100, text |-> 135]>>
    /\ screen.dayBars[1] = [width |-> 50, text |-> 50]
    /\ screen.dayBars[2] = [width |-> 100, text |-> 625]

\* The theme.

\* the theme after the i-th toggle
ThemeAfter(i) == IF i < Len(noted.themes) THEN noted.themes[i + 1] ELSE app.theme

\* for whatever the browser held under 'theme', and after any toggles, the
\* theme is 'light' or 'dark', the entry is the theme, and two toggles
\* restore the theme
ThemeKept ==
    /\ app.theme \in {"light", "dark"}
    /\ themeStorage = Entry(app.theme)
    /\ \A i \in DOMAIN noted.themes :
          i < Len(noted.themes) => ThemeAfter(i + 1) = noted.themes[i]

\* C21: for every initial content of the 'theme' entry of the local storage
\* and after any sequence of toggleTheme operations, the theme is 'light' or
\* 'dark', the entry equals the theme, and toggling twice restores the theme.
C21_ThemeKept ==
    app.mounted => ThemeKept

\* the same when the view opened with 'light', 'dark' or nothing stored
C21_ThemeKeptFromOwnEntry ==
    (app.mounted /\ noted.themeAtMount \in {"light", "dark"}) => ThemeKept

C21_OwnEntryWitness ==
    /\ app.mounted /\ noted.themeAtMount = "dark"
    /\ noted.themes = <<"dark", "light", "dark">>
    /\ themeStorage = Entry("light")

\* The toolbar and the side panels.

\* C22: showTimesheet and showWorklogSummary are never both true, at most one
\* of the three side panels is rendered, and the issue detail panel takes
\* precedence over the other two.
C22_OneSidePanel ==
    /\ ~(app.showTimesheet /\ app.showWorklogSummary)
    /\ Len(SidePanels(app)) <= 1
    /\ app.selectedIssue # "null" => SidePanels(app) = <<"IssueDetailPanel">>

C22_Witness ==
    /\ app.showWorklogSummary
    /\ app.selectedIssue # "null"
    /\ noted.closed

\* The issue searches.

\* C23: the search that handleProjectChange(projectKey) schedules is scoped
\* to the project just selected, or to none for All Projects.
C23_SearchOfNewProject ==
    \A i \in DOMAIN searches :
        searches[i].wanted # "n/a" => searches[i].jql.project = searches[i].wanted

\* all the searches that were started have come back
AllBack == InFlightSearches = {} /\ noted.last > 0

\* C24: once all the overlapping fetchIssues calls have come back, in whatever
\* order, the list on the board is the result of the one started last.
C24_LastStartedShown ==
    AllBack => app.issues = noted.lastResult

\* the same when no search was started while another was waiting
C24_LastShownInTurn ==
    (AllBack /\ ~noted.overlapped) => app.issues = noted.lastResult

C24_InTurnWitness ==
    /\ AllBack /\ ~noted.overlapped
    /\ noted.last = MaxSearches
    /\ app.issues = <<"OPS-1">>

\* C25: when no fetchIssues is waiting, an error comes with an empty list and
\* a list with issues comes with no error.
C25_ErrorOrIssues ==
    InFlightSearches = {} =>
        /\ app.error # "null" => app.issues = <<>>
        /\ app.issues # <<>> => app.error = "null"

C25_ErrorOrIssuesInTurn ==
    (InFlightSearches = {} /\ ~noted.overlapped) =>
        /\ app.error # "null" => app.issues = <<>>
        /\ app.issues # <<>> => app.error = "null"

C25_InTurnWitness ==
    /\ InFlightSearches = {} /\ ~noted.overlapped
    /\ app.error # "null"
    /\ noted.last = 2

\* C26: loading is true whenever a fetchIssues is waiting and false only when
\* none is.
C26_LoadingWhileWaiting ==
    app.loading <=> InFlightSearches # {}

C26_LoadingInTurn ==
    ~noted.overlapped => (app.loading <=> InFlightSearches # {})

C26_InTurnWitness ==
    /\ ~noted.overlapped
    /\ app.loading
    /\ noted.last = 2

\* The issue detail panel.

\* C27: after handleCloseDetail the panel stays closed until an issue is
\* clicked again, also when a detail fetch is waiting.
C27_StaysClosed ==
    noted.closed => app.selectedIssue = "null"

\* the same when the click on the card made the only detail fetch
C27_StaysClosedWhenIdle ==
    (noted.closed /\ noted.details = 1) => app.selectedIssue = "null"

C27_IdleWitness ==
    /\ noted.closed /\ noted.details = 1
    /\ noted.started = MaxSearches

\* The board.

\* the issues of the board with the status name of a column, in input order
WithStatus(name) == SelectSeq(board.issues, LAMBDA issue : issue.name = name)

\* every issue is in exactly one column, the one of its status name, and keeps
\* its place among the issues of the column
EachInItsColumn ==
    /\ \A c \in DOMAIN board.columns :
          board.columns[c].issues = WithStatus(board.columns[c].name)
    /\ \A c, d \in DOMAIN board.columns :
          board.columns[c].name = board.columns[d].name => c = d
    /\ \A i \in DOMAIN board.issues :
          \E c \in DOMAIN board.columns : board.columns[c].name = board.issues[i].name
    /\ SumSeq([c \in DOMAIN board.columns |-> Len(board.columns[c].issues)])
          = Len(board.issues)

\* the three categories in the order of the board
CategoryOrder == <<"new", "indeterminate", "done">>

\* C28: for every issue list, each issue is in exactly one column, the one
\* named after its status name, the counts of the columns sum to the number of
\* issues and the issues keep their input order inside a column; the columns
\* come in the order new, indeterminate, done of their status category, for
\* every status category key an issue can carry.
C28_ColumnsByCategory ==
    board.renders = 1 =>
        /\ EachInItsColumn
        /\ \A c, d \in DOMAIN board.columns :
              c < d => \E x, y \in DOMAIN CategoryOrder :
                          /\ x <= y
                          /\ board.columns[c].key = CategoryOrder[x]
                          /\ board.columns[d].key = CategoryOrder[y]

\* the same for issues whose category key is new, indeterminate or done, or
\* that have none
C28_ColumnsByKnownCategory ==
    (board.renders = 1
        /\ \A i \in DOMAIN board.issues : board.issues[i].category # "undefined") =>
        /\ EachInItsColumn
        /\ \A c, d \in DOMAIN board.columns :
              c < d => \E x, y \in DOMAIN CategoryOrder :
                          /\ x <= y
                          /\ board.columns[c].key = CategoryOrder[x]
                          /\ board.columns[d].key = CategoryOrder[y]

\* whatever the keys, every issue is in the column of its status name
C28_EachInItsColumn ==
    board.renders = 1 => EachInItsColumn

C28_KnownWitness ==
    /\ board.renders = 1
    /\ Len(board.issues) = MaxCards
    /\ board.issues[1].category = "done" /\ board.issues[1].name = "Review"
    /\ board.issues[2].category = "" /\ board.issues[2].name = "To Do"
    /\ board.issues[3].name = "Review"
    /\ Len(board.columns) = 2 /\ board.columns[1].name = "To Do"

\* Logging time.

\* the text is blank or parses to no positive number of seconds
NoSeconds(text) ==
    \/ \A i \in DOMAIN text : text[i] = " "
    \/ parseTimeToSeconds(text).isNull
    \/ parseTimeToSeconds(text).value <= 0

\* C29: when the text is blank or parses to no positive number of seconds,
\* handleLogTime sends no worklog request, leaves the input and the editing
\* mode as they were and does not call onUpdate; and on every path (early
\* return, success, thrown fetch) saving is false once the handler finished.
C29_LogTimeRejects ==
    /\ (panel.last.called /\ NoSeconds(panel.last.timeSpent)) =>
          /\ panel.pc = "idle"
          /\ panel.sent = panel.last.sent
          /\ panel.timeSpent = panel.last.timeSpent
          /\ panel.editing = panel.last.editing
          /\ panel.updates = panel.last.updates
    /\ panel.pc = "idle" => ~panel.saving

C29_Witness ==
    /\ panel.last.called /\ panel.last.timeSpent = <<"0", "m">>
    /\ panel.alerts = 1
    /\ panel.sent = <<3600>> /\ panel.updates = 1
    /\ panel.runs = MaxLogs

====
